---- MODULE Spec2Model ----
(***************************************************************************)
(* A model of the git-helper plugin: GitService (services/git.ts), the     *)
(* WorkspaceCache (utils/workspace-cache.ts), the IDE workspace locators    *)
(* (services/vscode.ts, services/cursor.ts) and the plugin entry points     *)
(* getActions / executeAction (index.ts).                                   *)
(*                                                                         *)
(* Strings that the code transforms (paths, URIs) are sequences of          *)
(* one-character strings; messages are tags (the source's texts are given   *)
(* in comments).                                                            *)
(***************************************************************************)
EXTENDS Integers, Sequences, FiniteSets, TLC

\* ---------------------------------------------------------------- bounds
\* Largest number of changed paths a working tree holds at once.
MaxFiles == 1
\* Largest number of commits on the local branch (commit is disabled beyond).
MaxCommits == 1
\* Largest number of configured remotes.
MaxRemotes == 2

\* ------------------------------------------------------------ small sets
RemoteNames == {"origin", "upstream"}
\* status.current: "" stands for a status without a current branch.
Branches == {"", "main"}
\* error.message of a thrown VCS error; "" is an error without a message.
ErrTexts == {"", "fatal"}
\* The places of GitService that run a VCS command, each of which may throw:
\* those commitAndPush reaches, and those getStatus reaches.
CommitSites == {"revparse", "status", "statusDesc", "add", "commit",
                "getRemotes", "push"}
StatusSites == {"revparse", "status", "statusUnpushed", "getRemotes",
                "revparseVerify", "revlist"}
\* A fault plan: the site that throws (at most one per request) and its text.
NoFault == [site |-> "none", text |-> "fatal"]
CommitFaults == {NoFault} \cup [site : CommitSites, text : ErrTexts]
StatusFaults == {NoFault} \cup [site : StatusSites, text : {"fatal"}]
Throws(F, site) == F.site = site

NoRef == -1
NoGitOut == [op |-> "none"]
NoCacheOut == [op |-> "none"]
\* Largest number of directories that exist at once.
MaxDirs == 2
\* Largest number of live re-resolutions followed within one request.
MaxResolve == 2
\* Largest number of IDE storage files that exist at once.
MaxStorageFiles == 2
\* Longest body of a string handed to the path normalisation.
MaxLen == 5
\* Largest number of normalisations applied to one path.
MaxPasses == 2

Idle == [state |-> "idle"]

VARIABLES
  repo,      \* the working directory GitService is bound to, and its repository
  gitOut,    \* what the last GitService call did and returned
  cacheFile, \* ~/.coffic/git-helper/workspace.json
  disk,      \* the directories that exist (what fs.existsSync answers)
  cacheOut,  \* what the last WorkspaceCache call did and returned
  lastSave,  \* the last saveWorkspace call, while nothing has written its key since
  host,      \* the machine the plugin runs on
  storage,   \* the IDEs' storage files on it
  req        \* the request of the host application that is being served

vars == <<repo, gitOut, cacheFile, disk, cacheOut, lastSave, host, storage, req>>
gitVars == <<repo, gitOut>>
cacheVars == <<cacheFile, disk, cacheOut, lastSave>>
pluginVars == <<host, storage, req>>

\* ------------------------------------------------------- repository state
FileCounts == {f \in [created : 0..MaxFiles, deleted : 0..MaxFiles,
                      modified : 0..MaxFiles, renamed : 0..MaxFiles,
                      not_added : 0..MaxFiles] :
                 f.created + f.deleted + f.modified + f.renamed + f.not_added
                   <= MaxFiles}
NoFiles == [created |-> 0, deleted |-> 0, modified |-> 0, renamed |-> 0,
            not_added |-> 0]

RECURSIVE NoDup(_)
NoDup(s) == IF Len(s) <= 1 THEN TRUE
            ELSE /\ \A i \in 2..Len(s) : s[i] # s[1]
                 /\ NoDup(Tail(s))
RemoteLists == {s \in UNION {[1..n -> RemoteNames] : n \in 0..MaxRemotes} :
                  NoDup(s)}
Names(remotes) == {remotes[i] : i \in 1..Len(remotes)}

\* dir: the workspace directory exists; gitDir: it holds a .git entry;
\* valid: `git rev-parse --is-inside-work-tree` succeeds there;
\* index: number of changed paths recorded in the index;
\* tracking[r]: commits of refs/remotes/r/<current>, NoRef when the ref is absent.
FreshRepo == [dir |-> TRUE, gitDir |-> TRUE, valid |-> TRUE, current |-> "main",
              files |-> NoFiles, index |-> 0, commits |-> 0, remotes |-> <<>>,
              tracking |-> [r \in RemoteNames |-> NoRef]]

\* ------------------------------------------------- the VCS command results
\* One VCS command as it ran: whether it threw, whether the throw was a fault
\* of the environment (injected) or follows from the repository's state, and
\* the error's message.
NoErr == [threw |-> FALSE, injected |-> FALSE, text |-> ""]
Thrown(injected, text) == [threw |-> TRUE, injected |-> injected, text |-> text]
Call(cmd, args, err) == [cmd |-> cmd, args |-> args, err |-> err]

\* git.status(): the StatusResult fields the code reads.
StatusResult(r) ==
  [current |-> r.current, created |-> r.files.created,
   deleted |-> r.files.deleted, modified |-> r.files.modified,
   renamed |-> r.files.renamed, not_added |-> r.files.not_added]

\* git add '.': every changed path enters the index, untracked ones as created.
AfterAdd(r) ==
  [r EXCEPT !.files = [r.files EXCEPT !.created = r.files.created + r.files.not_added,
                                      !.not_added = 0],
            !.index = r.files.created + r.files.deleted + r.files.modified
                        + r.files.renamed + r.files.not_added]

\* git commit: the index becomes a new commit.
AfterCommit(r) ==
  [r EXCEPT !.files = NoFiles, !.index = 0, !.commits = r.commits + 1]

\* git push <remote> <branch>: fails unless <remote> is a configured remote.
PushFails(r, remote) == remote \notin Names(r.remotes)
AfterPush(r, remote) ==
  [r EXCEPT !.tracking = [r.tracking EXCEPT ![remote] = r.commits]]

\* git rev-list --count <remote>/<branch>..<branch>
RevListCount(r, remote) ==
  IF r.commits > r.tracking[remote] THEN r.commits - r.tracking[remote] ELSE 0

\* ------------------------------------------------------------- GitService
\* this.git is null when the path is empty or simpleGit() threw, which it does
\* for a directory that does not exist.
GitInitialized(r) == r.dir

\* A count that leaves the untracked files out.
changedFilesCountTracked(status) ==
  status.created + status.deleted + status.modified + status.renamed

changedFilesCountOf(status) ==
  status.created + status.deleted + status.modified + status.renamed
    + status.not_added

\* isGitRepository(): [value, calls]
isGitRepository(r, F) ==
  IF ~GitInitialized(r) THEN [value |-> FALSE, calls |-> <<>>]
  ELSE IF ~r.gitDir THEN [value |-> FALSE, calls |-> <<>>]
  ELSE LET injected == Throws(F, "revparse")
           threw == injected \/ ~r.valid
       IN  [value |-> ~threw,
            calls |-> <<Call("revparse", <<>>,
                             IF threw
                             THEN Thrown(injected, IF injected THEN F.text
                                                   ELSE "not_a_work_tree")
                             ELSE NoErr)>>]

\* getChangesDescription(): [value, calls]; the value is the sequence of the
\* non-empty categories with their counts, in the order of the text.
DescriptionOf(status) ==
  LET part(name, n) == IF n > 0 THEN <<[category |-> name, count |-> n]>> ELSE <<>>
  IN  part("created", status.created) \o part("modified", status.modified)
        \o part("deleted", status.deleted) \o part("renamed", status.renamed)
        \o part("not_added", status.not_added)

getChangesDescription(r, F) ==
  IF ~GitInitialized(r) THEN [value |-> <<>>, calls |-> <<>>]
  ELSE IF Throws(F, "statusDesc")
       THEN [value |-> <<>>, calls |-> <<Call("status", <<>>, Thrown(TRUE, F.text))>>]
       ELSE [value |-> DescriptionOf(StatusResult(r)),
             calls |-> <<Call("status", <<>>, NoErr)>>]

\* error.message || '未知错误'
ErrorMessage(text) == IF text = "" THEN "unknown_error" ELSE text

\* (mutant) the remote is taken to be the literal 'origin'.
DefaultRemoteOrigin(remotes) == "origin"

\* hasUnpushedCommits line 139: const defaultRemote = remotes[0].name
DefaultRemote(remotes) == remotes[1]

\* The remote commitAndPush hands to git.push (line 267): the literal 'origin'.
PushRemote(remotes) == "origin"

\* hasUnpushedCommits(): [value, calls]
hasUnpushedCommits(r, F) ==
  IF ~GitInitialized(r) THEN [value |-> FALSE, calls |-> <<>>]
  ELSE IF Throws(F, "statusUnpushed")
  THEN [value |-> FALSE, calls |-> <<Call("status", <<>>, Thrown(TRUE, F.text))>>]
  ELSE
  LET c1 == <<Call("status", <<>>, NoErr)>>
      currentBranch == StatusResult(r).current
  IN
  IF currentBranch = "" THEN [value |-> FALSE, calls |-> c1]
  ELSE IF Throws(F, "getRemotes")
  THEN [value |-> FALSE, calls |-> c1 \o <<Call("getRemotes", <<>>, Thrown(TRUE, F.text))>>]
  ELSE
  LET c2 == c1 \o <<Call("getRemotes", <<>>, NoErr)>>
  IN
  IF Len(r.remotes) = 0 THEN [value |-> FALSE, calls |-> c2]
  ELSE
  LET defaultRemote == DefaultRemote(r.remotes)
      vInjected == Throws(F, "revparseVerify")
      vThrew == vInjected \/ r.tracking[defaultRemote] = NoRef
      c3 == c2 \o <<Call("revparseVerify", <<defaultRemote, currentBranch>>,
                         IF vThrew
                         THEN Thrown(vInjected, IF vInjected THEN F.text
                                                ELSE "no_such_ref")
                         ELSE NoErr)>>
  IN
  IF vThrew THEN [value |-> TRUE, calls |-> c3]
  ELSE IF Throws(F, "revlist")
  THEN [value |-> FALSE,
        calls |-> c3 \o <<Call("revlist", <<defaultRemote, currentBranch>>, Thrown(TRUE, F.text))>>]
  ELSE [value |-> RevListCount(r, defaultRemote) > 0,
        calls |-> c3 \o <<Call("revlist", <<defaultRemote, currentBranch>>, NoErr)>>]

defaultStatus ==
  [isRepo |-> FALSE, branch |-> "", changedFilesCount |-> 0,
   hasChanges |-> FALSE, hasUnpushedCommits |-> FALSE]

\* getStatus(): [value, calls]
getStatus(r, F) ==
  IF ~GitInitialized(r) THEN [value |-> defaultStatus, calls |-> <<>>]
  ELSE
  LET rp == isGitRepository(r, F)
  IN
  IF ~rp.value THEN [value |-> defaultStatus, calls |-> rp.calls]
  ELSE IF Throws(F, "status")
  THEN [value |-> defaultStatus,
        calls |-> rp.calls \o <<Call("status", <<>>, Thrown(TRUE, F.text))>>]
  ELSE
  LET status == StatusResult(r)
      changedFilesCount == changedFilesCountOf(status)
      up == hasUnpushedCommits(r, F)
  IN  [value |-> [isRepo |-> TRUE, branch |-> status.current,
                  changedFilesCount |-> changedFilesCount,
                  hasChanges |-> changedFilesCount > 0,
                  hasUnpushedCommits |-> up.value],
       calls |-> rp.calls \o <<Call("status", <<>>, NoErr)>> \o up.calls]

\* The messages of commitAndPush (tag, detail):
\*   not_initialized      'Git服务未初始化'
\*   not_a_repository     '当前目录不是Git仓库'
\*   nothing_to_commit    '没有需要提交的更改'
\*   committed_no_remote  '已成功提交更改，但未找到远程仓库，无法推送'
\*   committed_no_branch  '已成功提交更改，但未能获取当前分支，无法推送'
\*   committed_and_pushed '已成功提交并推送更改: ${commitMessage}'
\*   commit_push_failed   '提交并推送失败: ${error.message || '未知错误'}'
Msg(tag, detail) == [tag |-> tag, detail |-> detail]
SyncResult(success, message, r, calls) ==
  [result |-> [success |-> success, message |-> message], repo |-> r,
   calls |-> calls]
\* The catch block of commitAndPush (lines 273-279).
Caught(text, r, calls) ==
  SyncResult(FALSE, Msg("commit_push_failed", ErrorMessage(text)), r, calls)

\* `自动提交: ${changesDescription} [GitOK]`
CommitMessage(description) == [description |-> description, marker |-> "[GitOK]"]

\* (mutant) a failed push undoes the commit it follows.
PushStepRollsBack(r, F, calls, status, commitMessage) ==
  LET remote == PushRemote(r.remotes)
      injected == Throws(F, "push")
      threw == injected \/ PushFails(r, remote)
      text == IF injected THEN F.text ELSE "no_such_remote"
      c == calls \o <<Call("push", <<remote, status.current>>,
                          IF threw THEN Thrown(injected, text) ELSE NoErr)>>
  IN  IF threw
      THEN Caught(text, [r EXCEPT !.commits = r.commits - 1], c)
      ELSE SyncResult(TRUE, Msg("committed_and_pushed", commitMessage),
                      AfterPush(r, remote), c)

\* commitAndPush from the push step on (lines 266-272).
PushStep(r, F, calls, status, commitMessage) ==
  LET remote == PushRemote(r.remotes)
      injected == Throws(F, "push")
      threw == injected \/ PushFails(r, remote)
      text == IF injected THEN F.text ELSE "no_such_remote"
      c == calls \o <<Call("push", <<remote, status.current>>,
                          IF threw THEN Thrown(injected, text) ELSE NoErr)>>
  IN  IF threw
      THEN Caught(text, r, c)
      ELSE SyncResult(TRUE, Msg("committed_and_pushed", commitMessage),
                      AfterPush(r, remote), c)

\* (mutant) the check for an empty remote list is missing.
AfterCommitStepNoRemoteCheck(r, F, calls, status, commitMessage) ==
  IF Throws(F, "getRemotes")
  THEN Caught(F.text, r, calls \o <<Call("getRemotes", <<>>, Thrown(TRUE, F.text))>>)
  ELSE
  LET c == calls \o <<Call("getRemotes", <<>>, NoErr)>>
  IN  IF status.current = ""
      THEN SyncResult(TRUE, Msg("committed_no_branch", <<>>), r, c)
      ELSE PushStep(r, F, c, status, commitMessage)

\* commitAndPush after the commit succeeded (lines 246-272).
AfterCommitStep(r, F, calls, status, commitMessage) ==
  IF Throws(F, "getRemotes")
  THEN Caught(F.text, r, calls \o <<Call("getRemotes", <<>>, Thrown(TRUE, F.text))>>)
  ELSE
  LET c == calls \o <<Call("getRemotes", <<>>, NoErr)>>
  IN  IF Len(r.remotes) = 0
      THEN SyncResult(TRUE, Msg("committed_no_remote", <<>>), r, c)
      ELSE IF status.current = ""
      THEN SyncResult(TRUE, Msg("committed_no_branch", <<>>), r, c)
      ELSE PushStep(r, F, c, status, commitMessage)

\* (mutant) a failure of git add is logged and the commit is made all the same.
StageAndCommitAnyway(r, F, calls, status) ==
  LET desc == getChangesDescription(r, F)
      commitMessage == CommitMessage(desc.value)
      c0 == calls \o desc.calls
      c1 == c0 \o <<Call("add", <<>>,
                         IF Throws(F, "add") THEN Thrown(TRUE, F.text) ELSE NoErr)>>
      r1 == IF Throws(F, "add") THEN r ELSE AfterAdd(r)
  IN  AfterCommitStep(AfterCommit(r1), F, c1 \o <<Call("commit", <<>>, NoErr)>>,
                      status, commitMessage)

\* commitAndPush from staging on (lines 236-272).
StageAndCommit(r, F, calls, status) ==
  LET desc == getChangesDescription(r, F)
      commitMessage == CommitMessage(desc.value)
      c0 == calls \o desc.calls
  IN
  IF Throws(F, "add")
  THEN Caught(F.text, r, c0 \o <<Call("add", <<>>, Thrown(TRUE, F.text))>>)
  ELSE
  LET r1 == AfterAdd(r)
      c1 == c0 \o <<Call("add", <<>>, NoErr)>>
  IN
  IF Throws(F, "commit")
  THEN Caught(F.text, r1, c1 \o <<Call("commit", <<>>, Thrown(TRUE, F.text))>>)
  ELSE AfterCommitStep(AfterCommit(r1), F,
                       c1 \o <<Call("commit", <<>>, NoErr)>>,
                       status, commitMessage)

\* (mutant) the comparison never holds.
NothingToCommitNever(status) == changedFilesCountOf(status) < 0

\* if (changedFilesCount === 0) (line 229)
NothingToCommit(status) == changedFilesCountOf(status) = 0

\* commitAndPush(): [result, repo, calls]
commitAndPush(r, F) ==
  IF ~GitInitialized(r)
  THEN SyncResult(FALSE, Msg("not_initialized", <<>>), r, <<>>)
  ELSE
  LET rp == isGitRepository(r, F)
  IN
  IF ~rp.value
  THEN SyncResult(FALSE, Msg("not_a_repository", <<>>), r, rp.calls)
  ELSE IF Throws(F, "status")
  THEN Caught(F.text, r, rp.calls \o <<Call("status", <<>>, Thrown(TRUE, F.text))>>)
  ELSE
  LET status == StatusResult(r)
      c == rp.calls \o <<Call("status", <<>>, NoErr)>>
  IN  IF NothingToCommit(status)
      THEN SyncResult(FALSE, Msg("nothing_to_commit", <<>>), r, c)
      ELSE StageAndCommit(r, F, c, status)


\* ------------------------------------------------------------------ strings
\* A string is a sequence of one-character strings.  The values that are not
\* strings are one-element sequences of a longer token, which no string holds.
Undefined == <<"undefined">>
Null == <<"null">>
Falsy(v) == v \in {Undefined, Null, <<>>}
\* a || b
OrElse(a, b) == IF Falsy(a) THEN b ELSE a

FileScheme == <<"f", "i", "l", "e", ":", "/", "/">>
IsPrefixAt(p, s, i) ==
  /\ i + Len(p) - 1 <= Len(s)
  /\ \A k \in 1..Len(p) : s[i + k - 1] = p[k]
\* s.indexOf(p) + 1, and 0 when p does not occur in s
IndexOf(s, p) ==
  LET hits == {i \in 1..Len(s) : IsPrefixAt(p, s, i)}
  IN  IF hits = {} THEN 0 ELSE CHOOSE i \in hits : \A j \in hits : i <= j
\* s.includes(p)
Includes(s, p) == Len(p) = 0 \/ IndexOf(s, p) # 0
Cut(s, i, n) == SubSeq(s, 1, i - 1) \o SubSeq(s, i + n, Len(s))

\* s.replace(/^file:\/\//, ''): the prefix at the very start only.
ReplaceLeadingScheme(s) ==
  IF IsPrefixAt(FileScheme, s, 1) THEN Cut(s, 1, Len(FileScheme)) ELSE s

\* s.replace('file://', ''): the first occurrence, wherever it is.
ReplaceFirstScheme(s) ==
  IF IndexOf(s, FileScheme) = 0 THEN s
  ELSE Cut(s, IndexOf(s, FileScheme), Len(FileScheme))

HexLower == <<"0", "1", "2", "3", "4", "5", "6", "7", "8", "9",
              "a", "b", "c", "d", "e", "f">>
HexUpper == <<"0", "1", "2", "3", "4", "5", "6", "7", "8", "9",
              "A", "B", "C", "D", "E", "F">>
IsHex(c) == \E i \in 1..16 : HexLower[i] = c \/ HexUpper[i] = c
HexVal(c) == (CHOOSE i \in 1..16 : HexLower[i] = c \/ HexUpper[i] = c) - 1
\* The printable ASCII characters, from 0x20 to 0x7E (the double quote, the
\* backslash and the backtick are written by name).
Printable ==
  <<" ", "!", "dquote", "#", "$", "%", "&", "'", "(", ")", "*", "+", ",", "-", ".", "/",
    "0", "1", "2", "3", "4", "5", "6", "7", "8", "9", ":", ";", "<", "=", ">", "?",
    "@", "A", "B", "C", "D", "E", "F", "G", "H", "I", "J", "K", "L", "M", "N", "O",
    "P", "Q", "R", "S", "T", "U", "V", "W", "X", "Y", "Z", "[", "backslash", "]", "^", "_",
    "backtick", "a", "b", "c", "d", "e", "f", "g", "h", "i", "j", "k", "l", "m", "n", "o",
    "p", "q", "r", "s", "t", "u", "v", "w", "x", "y", "z", "{", "|", "}", "~">>
\* The character of an ASCII byte; a control character is written "ctl".
Chr(b) == IF b >= 32 /\ b <= 126 THEN Printable[b - 31] ELSE "ctl"

\* decodeURIComponent(s) from position i: [ok, value]; ok = FALSE is URIError.
\* An escape is % and two hex digits; the strings used here hold escapes of
\* ASCII bytes only, and an escape of a byte from 0x80 on (part of a UTF-8
\* sequence) is taken as malformed.
RECURSIVE decodeFrom(_, _)
decodeFrom(s, i) ==
  IF i > Len(s) THEN [ok |-> TRUE, value |-> <<>>]
  ELSE IF s[i] # "%"
  THEN LET rest == decodeFrom(s, i + 1)
       IN  [ok |-> rest.ok, value |-> <<s[i]>> \o rest.value]
  ELSE IF i + 2 > Len(s) \/ ~IsHex(s[i + 1]) \/ ~IsHex(s[i + 2])
  THEN [ok |-> FALSE, value |-> <<>>]
  ELSE LET b == 16 * HexVal(s[i + 1]) + HexVal(s[i + 2])
           rest == decodeFrom(s, i + 3)
       IN  IF b >= 128 THEN [ok |-> FALSE, value |-> <<>>]
           ELSE [ok |-> rest.ok, value |-> <<Chr(b)>> \o rest.value]
decodeURIComponent(s) == decodeFrom(s, 1)

\* ----------------------------------------------------------- WorkspaceCache
CURRENT_APP_KEY == <<"_current_app_">>
NoSave == [appId |-> Undefined]

\* cleanWorkspacePath (workspace-cache.ts): null for a falsy argument; else the
\* leading scheme removed and the rest decoded, or left as it is when the
\* decoding throws.
cleanCachePath(workspace) ==
  IF Falsy(workspace) THEN Null
  ELSE LET cleanPath == ReplaceLeadingScheme(workspace)
           decoded == decodeURIComponent(cleanPath)
       IN  IF decoded.ok THEN decoded.value ELSE cleanPath

\* The cache file: missing, text that JSON.parse rejects, or JSON text, kept as
\* the value it parses to: an object (data: a function from its keys) or null.
\* JSON.stringify and JSON.parse keep an object of strings and nulls as it is.
EmptyObject == [k \in {} |-> Null]
MissingFile == [kind |-> "missing"]
GarbageFile == [kind |-> "garbage"]
JsonFile(data) == [kind |-> "json", isObject |-> TRUE, data |-> data]
JsonNullFile == [kind |-> "json", isObject |-> FALSE, data |-> EmptyObject]
\* cacheData[key]
Get(data, key) == IF key \in DOMAIN data THEN data[key] ELSE Undefined
\* cacheData[key] = v
Put(data, key, v) ==
  [k \in DOMAIN data \cup {key} |-> IF k = key THEN v ELSE data[k]]

\* The read-modify-write of saveCurrentApp and saveWorkspace: the file after the
\* call.  ioFails: mkdirSync, readFileSync or writeFileSync throws; the catch
\* logs it and the file stays.  Setting a property of null throws as well.
Upsert(file, key, v, ioFails) ==
  IF ioFails THEN file
  ELSE IF file.kind = "json" /\ ~file.isObject THEN file
  ELSE LET cacheData == IF file.kind = "json" THEN file.data ELSE EmptyObject
       IN  JsonFile(Put(cacheData, key, v))

saveCurrentApp(file, appId, ioFails) ==
  Upsert(file, CURRENT_APP_KEY, appId, ioFails)

saveWorkspace(file, appId, workspace, ioFails) ==
  Upsert(file, appId, cleanCachePath(workspace), ioFails)

getCurrentApp(file) ==
  IF file.kind # "json" THEN <<>>
  ELSE IF ~file.isObject THEN <<>>
  ELSE OrElse(Get(file.data, CURRENT_APP_KEY), <<>>)

\* (mutant) every cached path is taken to exist.
existsSyncAlways(d, path) == TRUE

\* fs.existsSync(path)
existsSync(d, path) == path \in d

\* (mutant) the pointer is not looked at: the entry of 'Code' is read.
getWorkspaceOfCode(file, appId, d) ==
  IF file.kind # "json" THEN Null
  ELSE IF ~file.isObject THEN Null
  ELSE LET workspace == OrElse(Get(file.data, <<"C", "o", "d", "e">>), Null)
       IN  IF ~Falsy(workspace) /\ ~existsSync(d, workspace) THEN Null
           ELSE workspace

\* getWorkspace(appId?): appId is Undefined when the argument is left out.
getWorkspace(file, appId, d) ==
  IF file.kind # "json" THEN Null
  ELSE IF ~file.isObject THEN Null
  ELSE
  LET cacheData == file.data
      actualAppId == OrElse(appId, OrElse(Get(cacheData, CURRENT_APP_KEY), <<>>))
  IN
  IF Falsy(actualAppId) THEN Null
  ELSE
  LET workspace == OrElse(Get(cacheData, actualAppId), Null)
  IN  IF ~Falsy(workspace) /\ ~existsSync(d, workspace) THEN Null
      ELSE workspace

\* ------------------------------------------------ the IDE storage locators
\* The machine: process.platform, and whether process.env.APPDATA is set.
Platforms == {"darwin", "win32", "linux", "freebsd"}
Hosts == [platform : Platforms, appData : BOOLEAN]

\* A candidate storage file: the application directory under the platform's
\* configuration directory, and the file below it.
Dir_Code == "Code"
Dir_Insiders == "Code - Insiders"
Dir_Cursor == "Cursor"
File_Json == "storage.json"
File_Db == "User/globalStorage/state.vscdb"
File_GlobalJson == "User/globalStorage/storage.json"
StoragePath(app, file) == [app |-> app, file |-> file]
StoragePaths == [app : {Dir_Code, Dir_Insiders, Dir_Cursor},
                 file : {File_Json, File_Db, File_GlobalJson}]
NoPath == [app |-> "", file |-> ""]
\* storagePath.endsWith(ext)
EndsWith(p, ext) ==
  \/ ext = ".json" /\ p.file \in {File_Json, File_GlobalJson}
  \/ ext = ".vscdb" /\ p.file = File_Db

\* What a storage file holds.
\*   absent:  fs.existsSync is false;
\*   text:    a text file; doc is what JSON.parse makes of it: "garbage" (it
\*            throws), "null", or an object, of which the fields the code reads
\*            are kept (Undefined when the object lacks them):
\*              openedFolderUri  openedPathsList.entries[0].folderUri
\*              windowFolderUri  windowState.lastActiveWindow.folderUri
\*              cursorFolder     windowsState.lastActiveWindow.folder
\*   sqlite:  a database; opening it or the query may fail; rows is the result
\*            of the query, in its order.
Absent == [kind |-> "absent"]
GarbageDoc == [kind |-> "garbage"]
NullDoc == [kind |-> "null"]
ObjectDoc(opened, window, folder) ==
  [kind |-> "object", openedFolderUri |-> opened, windowFolderUri |-> window,
   cursorFolder |-> folder]
TextFile(doc) == [kind |-> "text", doc |-> doc]
DbFile(openFails, queryFails, rows) ==
  [kind |-> "sqlite", openFails |-> openFails, queryFails |-> queryFails,
   rows |-> rows]
\* A row of ItemTable: its value is empty, text that JSON.parse rejects, or an
\* object, kept as its folderUri and its workspace.folders[0].uri.
EmptyRow == [kind |-> "empty"]
GarbageRow == [kind |-> "garbage"]
JsonRow(folderUri, uri) == [kind |-> "json", folderUri |-> folderUri, uri |-> uri]

\* What a locator's getWorkspace comes to: a value, or an exception that no
\* handler catches.
Returned(v) == [escaped |-> FALSE, value |-> v]
Escaped == [escaped |-> TRUE, value |-> Null]

\* possiblePaths of VSCodeService.findStoragePath
VSCodePaths(h) ==
  IF h.platform = "darwin"
  THEN <<StoragePath(Dir_Code, File_Json), StoragePath(Dir_Code, File_Db),
         StoragePath(Dir_Code, File_GlobalJson),
         StoragePath(Dir_Insiders, File_Json), StoragePath(Dir_Insiders, File_Db),
         StoragePath(Dir_Insiders, File_GlobalJson)>>
  ELSE IF h.platform = "win32"
  THEN IF h.appData
       THEN <<StoragePath(Dir_Code, File_Json), StoragePath(Dir_Code, File_Db),
              StoragePath(Dir_Code, File_GlobalJson)>>
       ELSE <<>>
  ELSE IF h.platform = "linux"
  THEN <<StoragePath(Dir_Code, File_Json), StoragePath(Dir_Code, File_Db),
         StoragePath(Dir_Code, File_GlobalJson)>>
  ELSE <<>>

\* possiblePaths of CursorService.findStoragePath
CursorPaths(h) ==
  IF h.platform = "darwin" \/ h.platform = "linux"
  THEN <<StoragePath(Dir_Cursor, File_Json), StoragePath(Dir_Cursor, File_GlobalJson)>>
  ELSE IF h.platform = "win32" /\ h.appData
  THEN <<StoragePath(Dir_Cursor, File_Json), StoragePath(Dir_Cursor, File_GlobalJson)>>
  ELSE <<>>

\* (mutant) the last of possiblePaths that exists is taken.
findLastStoragePath(possiblePaths, st) ==
  LET found == {i \in 1..Len(possiblePaths) : st[possiblePaths[i]].kind # "absent"}
  IN  IF found = {} THEN NoPath
      ELSE possiblePaths[CHOOSE i \in found : \A j \in found : i >= j]

\* The first of possiblePaths that exists, NoPath when none does.
findStoragePath(possiblePaths, st) ==
  LET found == {i \in 1..Len(possiblePaths) : st[possiblePaths[i]].kind # "absent"}
  IN  IF found = {} THEN NoPath
      ELSE possiblePaths[CHOOSE i \in found : \A j \in found : i <= j]

\* VSCodeService.parseJsonStorage: the whole body is inside try.
parseJsonStorage(content) ==
  IF content.kind # "text" THEN Null
  ELSE IF content.doc.kind # "object" THEN Null
  ELSE
  LET data == content.doc
      workspacePath == IF ~Falsy(data.openedFolderUri) THEN data.openedFolderUri
                       ELSE IF ~Falsy(data.windowFolderUri) THEN data.windowFolderUri
                       ELSE Null
  IN  IF Falsy(workspacePath) THEN Null
      ELSE LET decoded == decodeURIComponent(ReplaceFirstScheme(workspacePath))
           IN  IF decoded.ok THEN decoded.value ELSE Null

\* The loop over the rows (lines 166-196): the path of the first row that has
\* a folderUri or a workspace folder, Null when no row has.
RowHit(row) == row.kind = "json" /\ (~Falsy(row.folderUri) \/ ~Falsy(row.uri))
RowPath(row) ==
  IF ~Falsy(row.folderUri) THEN ReplaceFirstScheme(row.folderUri)
  ELSE ReplaceFirstScheme(row.uri)
FirstRowPath(rows) ==
  LET hits == {i \in 1..Len(rows) : RowHit(rows[i])}
  IN  IF hits = {} THEN Null
      ELSE RowPath(rows[CHOOSE i \in hits : \A j \in hits : i <= j])

\* resolve(workspacePath ? decodeURIComponent(workspacePath) : null) (line 199):
\* it runs in the callback of db.all, outside every try.
ResolveDecoded(workspacePath) ==
  IF Falsy(workspacePath) THEN Returned(Null)
  ELSE LET decoded == decodeURIComponent(workspacePath)
       IN  IF decoded.ok THEN Returned(decoded.value) ELSE Escaped

\* VSCodeService.parseSqliteStorage
parseSqliteStorage(content) ==
  IF content.kind # "sqlite" THEN Returned(Null)
  ELSE IF content.openFails \/ content.queryFails THEN Returned(Null)
  ELSE ResolveDecoded(FirstRowPath(content.rows))

\* VSCodeService.getWorkspace
vscodeGetWorkspace(h, st) ==
  LET storagePath == findStoragePath(VSCodePaths(h), st)
  IN  IF storagePath = NoPath THEN Returned(Null)
      ELSE IF EndsWith(storagePath, ".json")
      THEN Returned(parseJsonStorage(st[storagePath]))
      ELSE IF EndsWith(storagePath, ".vscdb")
      THEN parseSqliteStorage(st[storagePath])
      ELSE Returned(Null)

\* CursorService.parseCursorJson
parseCursorJson(content) ==
  IF content.kind # "text" THEN Null
  ELSE IF content.doc.kind # "object" THEN Null
  ELSE LET folder == content.doc.cursorFolder
       IN  IF Falsy(folder) THEN Null
           ELSE LET decoded == decodeURIComponent(folder)
                IN  IF decoded.ok THEN decoded.value ELSE Null

\* CursorService.getWorkspace
cursorGetWorkspace(h, st) ==
  LET storagePath == findStoragePath(CursorPaths(h), st)
  IN  IF storagePath = NoPath THEN Returned(Null)
      ELSE Returned(parseCursorJson(st[storagePath]))

\* ------------------------------------------------------------- the plugin
\* String.toLowerCase, on the ASCII letters.
LowerOf == [i \in 34..59 |-> Printable[i + 32]]
LowerChar(c) ==
  IF \E i \in 34..59 : Printable[i] = c
  THEN LowerOf[CHOOSE i \in 34..59 : Printable[i] = c]
  ELSE c
toLowerCase(s) == [i \in 1..Len(s) |-> LowerChar(s[i])]
\* `${n}` of a number that is not negative
RECURSIVE NumberText(_)
NumberText(n) ==
  IF n < 10 THEN <<Printable[17 + n]>>
  ELSE NumberText(n \div 10) \o <<Printable[17 + (n % 10)]>>
\* `${branch}`
BranchText(b) == IF b = "main" THEN <<"m", "a", "i", "n">> ELSE <<>>

\* isVSCode, isCursor (index.ts 32-34 and 137-140)
IsVSCode(app) ==
  \/ Includes(toLowerCase(app), <<"c", "o", "d", "e">>)
  \/ Includes(toLowerCase(app), <<"v", "s", "c", "o", "d", "e">>)
IsCursor(app) == Includes(toLowerCase(app), <<"c", "u", "r", "s", "o", "r">>)
\* isCursor ? cursorService.getWorkspace() : vscodeService.getWorkspace()
Locate(app, h, st) ==
  IF IsCursor(app) THEN cursorGetWorkspace(h, st) ELSE vscodeGetWorkspace(h, st)

\* cleanWorkspacePath (git.ts): as the cache's, without the test for null.
cleanGitPath(workspace) ==
  LET cleanPath == ReplaceLeadingScheme(workspace)
      decoded == decodeURIComponent(cleanPath)
  IN  IF decoded.ok THEN decoded.value ELSE cleanPath

\* The directory whose repository the variable repo describes; every other
\* directory holds no repository.
RepoPath == <<"/", "w">>
\* new GitService(workspace): the service bound to the cleaned path.
BoundRepo(workspace, d, r) ==
  IF Falsy(workspace)
  THEN [FreshRepo EXCEPT !.dir = FALSE, !.gitDir = FALSE, !.valid = FALSE]
  ELSE LET cleanPath == cleanGitPath(workspace)
       IN  IF cleanPath = RepoPath THEN [r EXCEPT !.dir = r.dir /\ cleanPath \in d]
           ELSE [FreshRepo EXCEPT !.dir = cleanPath \in d, !.gitDir = FALSE,
                                  !.valid = FALSE]
\* The repository after a service bound to workspace has left it as bound.
Unbound(workspace, bound, r) ==
  IF ~Falsy(workspace) /\ cleanGitPath(workspace) = RepoPath
  THEN [bound EXCEPT !.dir = r.dir]
  ELSE r

\* The action list entries of getActions (lines 85-101).  A character outside
\* ASCII is written by its code point: 'Git状态' ends in U+72B6 U+6001.
Title_Status == <<"G", "i", "t", "U+72B6", "U+6001">>
Title_CommitPush == <<"U+81EA", "U+52A8", "U+63D0", "U+4EA4", "U+5E76", "U+63A8",
                      "U+9001", "U+66F4", "U+6539">>
StatusAction(gitStatus) ==
  [id |-> "git_status", title |-> Title_Status,
   description |->
     <<"U+5206", "U+652F", ":", " ">> \o BranchText(gitStatus.branch)
       \o <<",", " ", "U+53D8", "U+66F4", "U+6587", "U+4EF6", ":", " ">>
       \o NumberText(gitStatus.changedFilesCount)
       \o (IF gitStatus.hasUnpushedCommits
           THEN <<",", " ", "U+6709", "U+672A", "U+63A8", "U+9001", "U+63D0",
                  "U+4EA4">>
           ELSE <<>>)]
CommitPushAction(gitStatus) ==
  [id |-> "git_commit_push", title |-> Title_CommitPush,
   description |->
     <<"U+5C06", "U+5F53", "U+524D", "U+5DE5", "U+4F5C", "U+533A", "U+7684">>
       \o NumberText(gitStatus.changedFilesCount)
       \o <<"U+4E2A", "U+53D8", "U+66F4", "U+6587", "U+4EF6", "U+63D0", "U+4EA4",
            "U+5E76", "U+63A8", "U+9001", "U+5230", "U+8FDC", "U+7A0B", "U+4ED3",
            "U+5E93">>]
\* (mutant) a filter that looks at the titles only.
RECURSIVE FilterByTitle(_, _)
FilterByTitle(actions, lowerKeyword) ==
  IF actions = <<>> THEN <<>>
  ELSE (IF Includes(toLowerCase(Head(actions).title), lowerKeyword)
        THEN <<Head(actions)>> ELSE <<>>)
         \o FilterByTitle(Tail(actions), lowerKeyword)

\* actions.filter(...)
RECURSIVE Filter(_, _)
Filter(actions, lowerKeyword) ==
  IF actions = <<>> THEN <<>>
  ELSE LET action == Head(actions)
           keep == \/ Includes(toLowerCase(action.title), lowerKeyword)
                   \/ Includes(toLowerCase(action.description), lowerKeyword)
       IN  (IF keep THEN <<action>> ELSE <<>>) \o Filter(Tail(actions), lowerKeyword)

\* What one run of getActions, or of the body of executeAction, comes to:
\*   kind:     "done" (it returned result), "recursing" (executeAction is about
\*             to call itself, line 152) or "escaped" (an exception no handler
\*             catches);
\*   file:     the cache file afterwards;   repo: the repository afterwards;
\*   calls:    the VCS commands that ran;   resolved: the locator calls made.
Outcome(kind, result, file, r, calls, resolved) ==
  [kind |-> kind, result |-> result, file |-> file, repo |-> r, calls |-> calls,
   resolved |-> resolved]

\* The value of an expression that is written once and used often: the only
\* element of a one-element set.
The(S) == CHOOSE x \in S : TRUE

\* gitStatus of getActions (lines 61-78): [value, calls]
GitStatusOf(bound, F) ==
  LET isRepo == isGitRepository(bound, F)
  IN  IF isRepo.value
      THEN LET status == getStatus(bound, F)
           IN  [value |-> status.value, calls |-> isRepo.calls \o status.calls]
      ELSE [value |-> defaultStatus, calls |-> isRepo.calls]

\* (mutant) the commit-and-push entry is offered for every repository.
ActionsOfCommitAlways(gitStatus) ==
  IF gitStatus.isRepo
  THEN <<StatusAction(gitStatus), CommitPushAction(gitStatus)>>
  ELSE <<>>

\* actions of getActions (lines 81-103)
ActionsOf(gitStatus) ==
  IF gitStatus.isRepo
  THEN <<StatusAction(gitStatus)>>
         \o (IF gitStatus.hasChanges THEN <<CommitPushAction(gitStatus)>> ELSE <<>>)
  ELSE <<>>

\* getActions from line 50 on: located is what the locator came to, file1 the
\* cache file after saveCurrentApp.
ListActions(keyword, overlaidApp, file1, d, r, F, ioWorkspace, located) ==
  IF located.escaped THEN Outcome("escaped", <<>>, file1, r, <<>>, 1)
  ELSE IF Falsy(located.value) THEN Outcome("done", <<>>, file1, r, <<>>, 1)
  ELSE The({ Outcome("done",
                     IF Falsy(keyword) THEN ActionsOf(gitStatus.value)
                     ELSE Filter(ActionsOf(gitStatus.value), toLowerCase(keyword)),
                     saveWorkspace(file1, overlaidApp, located.value, ioWorkspace),
                     r, gitStatus.calls, 1) :
             gitStatus \in { GitStatusOf(bound, F) :
                             bound \in {BoundRepo(located.value, d, r)} } })

\* (mutant) the pointer is saved before the application is looked at.
getActionsPointerFirst(keyword, overlaidApp, file, d, r, h, st, F, ioApp, ioWorkspace) ==
  IF ~IsVSCode(overlaidApp) /\ ~IsCursor(overlaidApp)
  THEN Outcome("done", <<>>, saveCurrentApp(file, overlaidApp, ioApp), r, <<>>, 0)
  ELSE The({ ListActions(keyword, overlaidApp,
                         saveCurrentApp(file, overlaidApp, ioApp), d, r, F,
                         ioWorkspace, located) :
             located \in {Locate(overlaidApp, h, st)} })

\* getActions({keyword, overlaidApp}).  ioApp, ioWorkspace: the write of
\* saveCurrentApp, of saveWorkspace, fails.
getActions(keyword, overlaidApp, file, d, r, h, st, F, ioApp, ioWorkspace) ==
  IF ~IsVSCode(overlaidApp) /\ ~IsCursor(overlaidApp)
  THEN Outcome("done", <<>>, file, r, <<>>, 0)
  ELSE The({ ListActions(keyword, overlaidApp,
                         saveCurrentApp(file, overlaidApp, ioApp), d, r, F,
                         ioWorkspace, located) :
             located \in {Locate(overlaidApp, h, st)} })

\* The messages of executeAction:
\*   workspace_unavailable     '无法获取工作区路径，请重新打开IDE'
\*   workspace_not_repository  '当前工作区不是Git仓库'
\*   status                    the report of git_status (lines 172-183)
\*   unknown_action            `未知的动作: ${action.id}`
\* and, for git_commit_push, the message of commitAndPush.
StatusReport(status, changesDescription) ==
  Msg("status",
      [branch |-> status.branch, changedFilesCount |-> status.changedFilesCount,
       details |-> IF status.hasChanges THEN changesDescription ELSE <<>>,
       unpushed |-> status.hasUnpushedCommits])

\* (mutant) the re-resolved workspace is cached and retried even when absent.
FreshWorkspaceAlways(freshWorkspace) == TRUE

\* if (freshWorkspace) (line 147)
FreshWorkspaceFound(freshWorkspace) == ~Falsy(freshWorkspace)

\* The fallback of executeAction (lines 132-157), up to its recursive call.
Fallback(file, r, h, st, ioWorkspace) ==
  The({ IF Falsy(currentApp) \/ (~IsVSCode(currentApp) /\ ~IsCursor(currentApp))
        THEN Outcome("done", Msg("workspace_unavailable", <<>>), file, r, <<>>, 0)
        ELSE The({ IF fresh.escaped
                   THEN Outcome("escaped", Msg("none", <<>>), file, r, <<>>, 1)
                   ELSE IF FreshWorkspaceFound(fresh.value)
                   THEN Outcome("recursing", Msg("none", <<>>),
                                saveWorkspace(file, currentApp, fresh.value,
                                              ioWorkspace),
                                r, <<>>, 1)
                   ELSE Outcome("done", Msg("workspace_unavailable", <<>>), file,
                                r, <<>>, 1) :
                   fresh \in {Locate(currentApp, h, st)} }) :
        currentApp \in {getCurrentApp(file)} })

\* (mutant) an unknown id is answered like a repository-less git_status.
UnknownActionAsNotRepository(id) == Msg("workspace_not_repository", <<>>)

\* default: `未知的动作: ${action.id}` (line 197)
UnknownAction(id) == Msg("unknown_action", id)

\* The switch of executeAction (lines 160-198), for the service bound.
RunAction(id, file, r, workspace, bound, F) ==
  LET isRepo == isGitRepository(bound, F)
  IN
  IF id = "git_status"
  THEN IF ~isRepo.value
       THEN Outcome("done", Msg("workspace_not_repository", <<>>), file, r,
                    isRepo.calls, 0)
       ELSE LET status == getStatus(bound, F)
                changesDescription == getChangesDescription(bound, F)
            IN  Outcome("done", StatusReport(status.value, changesDescription.value),
                        file, r,
                        isRepo.calls \o status.calls \o changesDescription.calls, 0)
  ELSE IF id = "git_commit_push"
  THEN IF ~isRepo.value
       THEN Outcome("done", Msg("workspace_not_repository", <<>>), file, r,
                    isRepo.calls, 0)
       ELSE The({ Outcome("done", out.result.message, file,
                          Unbound(workspace, out.repo, r),
                          isRepo.calls \o out.calls, 0) :
                  out \in {commitAndPush(bound, F)} })
  ELSE Outcome("done", UnknownAction(id), file, r, <<>>, 0)

\* The body of executeAction(action), up to its recursive call.
executeAction(id, file, d, r, h, st, F, ioWorkspace) ==
  The({ IF Falsy(workspace) THEN Fallback(file, r, h, st, ioWorkspace)
        ELSE The({ RunAction(id, file, r, workspace, bound, F) :
                   bound \in {BoundRepo(workspace, d, r)} }) :
        workspace \in {getWorkspace(file, Undefined, d)} })

\* ------------------------------------------------------------ GitService run

InitGit ==
  /\ repo = FreshRepo
  /\ gitOut = NoGitOut

InitCache ==
  /\ cacheFile = MissingFile
  /\ disk = {}
  /\ cacheOut = NoCacheOut
  /\ lastSave = NoSave

InitPlugin ==
  /\ host = [platform |-> "linux", appData |-> FALSE]
  /\ storage = [p \in StoragePaths |-> Absent]
  /\ req = Idle

Init == InitGit /\ InitCache /\ InitPlugin

\* The user edits files: any combination of changed paths; created and renamed
\* paths are in the index by definition of those categories.
EditWorkingTree ==
  /\ UNCHANGED <<cacheVars, pluginVars>>
  /\ gitOut = NoGitOut
  /\ repo.dir /\ repo.gitDir /\ repo.valid
  /\ \E f \in FileCounts :
       /\ f # repo.files
       /\ repo' = [repo EXCEPT !.files = f, !.index = f.created + f.renamed]
  /\ gitOut' = NoGitOut

\* git remote add / remove: a removed remote loses its remote-tracking refs.
ConfigureRemotes ==
  /\ UNCHANGED <<cacheVars, pluginVars>>
  /\ gitOut = NoGitOut
  /\ repo.dir /\ repo.gitDir /\ repo.valid
  /\ \E rs \in RemoteLists :
       repo' = [repo EXCEPT !.remotes = rs,
                            !.tracking = [n \in RemoteNames |->
                               IF n \in Names(rs) THEN repo.tracking[n] ELSE NoRef]]
  /\ gitOut' = NoGitOut

\* git fetch, or a push made outside the plugin: a remote-tracking ref moves.
UpdateTracking ==
  /\ UNCHANGED <<cacheVars, pluginVars>>
  /\ gitOut = NoGitOut
  /\ repo.dir /\ repo.gitDir /\ repo.valid
  /\ \E n \in Names(repo.remotes), k \in {NoRef} \cup (0..MaxCommits) :
       repo' = [repo EXCEPT !.tracking[n] = k]
  /\ gitOut' = NoGitOut

\* git checkout of a branch, or a state in which status reports no branch.
Checkout ==
  /\ UNCHANGED <<cacheVars, pluginVars>>
  /\ gitOut = NoGitOut
  /\ repo.dir /\ repo.gitDir /\ repo.valid
  /\ \E b \in Branches : repo' = [repo EXCEPT !.current = b]
  /\ gitOut' = NoGitOut

\* The directory is removed, loses its .git entry or its repository breaks
\* (whatever the repository held is gone); or a fresh repository is made.
ChangeDirectory ==
  /\ UNCHANGED <<cacheVars, pluginVars>>
  /\ gitOut = NoGitOut
  /\ \E d, g, v \in BOOLEAN :
       /\ (g => d) /\ (v => g)
       /\ repo' = [FreshRepo EXCEPT !.dir = d, !.gitDir = g, !.valid = v]
  /\ gitOut' = NoGitOut

CommitAndPush ==
  /\ UNCHANGED <<cacheVars, pluginVars>>
  /\ gitOut = NoGitOut
  /\ \E F \in CommitFaults :
       LET out == commitAndPush(repo, F)
       IN  /\ out.repo.commits <= MaxCommits
           /\ repo' = out.repo
           /\ gitOut' = [op |-> "commitAndPush", pre |-> repo,
                         result |-> out.result, calls |-> out.calls]

GetStatus ==
  /\ UNCHANGED <<cacheVars, pluginVars>>
  /\ gitOut = NoGitOut
  /\ \E F \in StatusFaults :
       LET out == getStatus(repo, F)
       IN  /\ repo' = repo
           /\ gitOut' = [op |-> "getStatus", pre |-> repo,
                         result |-> out.value, calls |-> out.calls]

\* The caller has taken the result; the service is called anew for each request.
GitReturn ==
  /\ UNCHANGED <<cacheVars, pluginVars>>
  /\ gitOut # NoGitOut
  /\ gitOut' = NoGitOut
  /\ repo' = repo

NextGit ==
  \/ EditWorkingTree
  \/ ConfigureRemotes
  \/ UpdateTracking
  \/ Checkout
  \/ ChangeDirectory
  \/ CommitAndPush
  \/ GetStatus
  \/ GitReturn

SpecGit == Init /\ [][NextGit]_vars

\* -------------------------------------------------------- WorkspaceCache run
App_Code == <<"C", "o", "d", "e">>
App_Cursor == <<"C", "u", "r", "s", "o", "r">>
App_Finder == <<"F", "i", "n", "d", "e", "r">>
\* The application ids the cache is called with: IDE names, the empty string
\* and the reserved key itself.
CacheAppIds == {App_Code, <<>>, CURRENT_APP_KEY}

Path_w == <<"/", "w">>
Path_uri == FileScheme \o <<"/", "w">>
Path_enc == <<"/", "%", "2", "5">>
Path_pct == <<"/", "%">>
\* The workspace values handed to saveWorkspace.
RawWorkspaces == {Path_w, Path_uri, Path_enc, Path_pct, Null}
\* The directories that may exist: /w, and two whose names hold a % sign.
DiskPaths == {Path_w, Path_enc, Path_pct}

SaveCurrentApp ==
  /\ cacheOut = NoCacheOut
  /\ \E appId \in CacheAppIds, ioFails \in BOOLEAN :
       /\ cacheFile' = saveCurrentApp(cacheFile, appId, ioFails)
       /\ cacheOut' = [op |-> "saveCurrentApp", appId |-> appId,
                       pre |-> cacheFile, ioFails |-> ioFails]
       /\ lastSave' = IF lastSave.appId = CURRENT_APP_KEY THEN NoSave ELSE lastSave
  /\ disk' = disk
  /\ UNCHANGED <<gitVars, pluginVars>>

SaveWorkspace ==
  /\ cacheOut = NoCacheOut
  /\ \E appId \in CacheAppIds, workspace \in RawWorkspaces, ioFails \in BOOLEAN :
       /\ cacheFile' = saveWorkspace(cacheFile, appId, workspace, ioFails)
       /\ cacheOut' = [op |-> "saveWorkspace", appId |-> appId,
                       workspace |-> workspace, pre |-> cacheFile,
                       ioFails |-> ioFails,
                       repeat |-> lastSave = [appId |-> appId,
                                              workspace |-> workspace]]
       /\ lastSave' = IF ~ioFails /\ (cacheFile.kind = "json" => cacheFile.isObject)
                      THEN [appId |-> appId, workspace |-> workspace]
                      ELSE NoSave
  /\ disk' = disk
  /\ UNCHANGED <<gitVars, pluginVars>>

GetWorkspace ==
  /\ cacheOut = NoCacheOut
  /\ \E appId \in CacheAppIds \cup {Undefined} :
       cacheOut' = [op |-> "getWorkspace", appId |-> appId, pre |-> cacheFile,
                    value |-> getWorkspace(cacheFile, appId, disk)]
  /\ UNCHANGED <<cacheFile, disk, lastSave>>
  /\ UNCHANGED <<gitVars, pluginVars>>

GetCurrentApp ==
  /\ cacheOut = NoCacheOut
  /\ cacheOut' = [op |-> "getCurrentApp", pre |-> cacheFile,
                  value |-> getCurrentApp(cacheFile)]
  /\ UNCHANGED <<cacheFile, disk, lastSave>>
  /\ UNCHANGED <<gitVars, pluginVars>>

\* Outside the plugin a directory is created.
MakeDirectory ==
  /\ cacheOut = NoCacheOut /\ req = Idle
  /\ Cardinality(disk) < MaxDirs
  /\ \E d \in DiskPaths \ disk : disk' = disk \cup {d}
  /\ UNCHANGED <<cacheFile, cacheOut, lastSave>>
  /\ UNCHANGED <<gitVars, pluginVars>>

\* Outside the plugin a directory is deleted.
RemoveDirectory ==
  /\ cacheOut = NoCacheOut /\ req = Idle
  /\ \E d \in disk : disk' = disk \ {d}
  /\ UNCHANGED <<cacheFile, cacheOut, lastSave>>
  /\ UNCHANGED <<gitVars, pluginVars>>

\* Outside the plugin the cache file is deleted, or overwritten with text that
\* is not JSON, or with the JSON text null.
ClobberCache ==
  /\ cacheOut = NoCacheOut /\ req = Idle
  /\ cacheFile' \in {MissingFile, GarbageFile, JsonNullFile}
  /\ lastSave' = NoSave
  /\ UNCHANGED <<disk, cacheOut>>
  /\ UNCHANGED <<gitVars, pluginVars>>

\* The caller has taken the result.
CacheReturn ==
  /\ cacheOut # NoCacheOut
  /\ cacheOut' = NoCacheOut
  /\ UNCHANGED <<cacheFile, disk, lastSave>>
  /\ UNCHANGED <<gitVars, pluginVars>>

NextCache ==
  \/ SaveCurrentApp
  \/ SaveWorkspace
  \/ GetWorkspace
  \/ GetCurrentApp
  \/ MakeDirectory
  \/ RemoveDirectory
  \/ ClobberCache
  \/ CacheReturn

SpecCache == Init /\ [][NextCache]_vars

\* --------------------------------------------------------------- plugin run
\* The installations the run moves between: a host and its storage files.
LinuxHost == [platform |-> "linux", appData |-> FALSE]
NoStorage == [p \in StoragePaths |-> Absent]
Uri_pct == FileScheme \o <<"/", "%">>
Doc_w == TextFile(ObjectDoc(Path_uri, Undefined, Undefined))
Db_w == DbFile(FALSE, FALSE, <<GarbageRow, JsonRow(Path_uri, Undefined)>>)
Db_pct == DbFile(FALSE, FALSE, <<JsonRow(Uri_pct, Undefined)>>)
Installations ==
  { [host |-> LinuxHost, storage |-> NoStorage],
    [host |-> LinuxHost,
     storage |-> [NoStorage EXCEPT ![StoragePath(Dir_Code, File_Json)] = Doc_w]],
    [host |-> LinuxHost,
     storage |-> [NoStorage EXCEPT
                    ![StoragePath(Dir_Code, File_Json)] = TextFile(GarbageDoc),
                    ![StoragePath(Dir_Code, File_Db)] = Db_w]],
    [host |-> LinuxHost,
     storage |-> [NoStorage EXCEPT ![StoragePath(Dir_Code, File_Db)] = Db_w]],
    [host |-> LinuxHost,
     storage |-> [NoStorage EXCEPT ![StoragePath(Dir_Code, File_Db)] = Db_pct]],
    [host |-> LinuxHost,
     storage |-> [NoStorage EXCEPT
                    ![StoragePath(Dir_Cursor, File_GlobalJson)] =
                       TextFile(ObjectDoc(Undefined, Undefined, Path_w))]],
    [host |-> [platform |-> "win32", appData |-> FALSE],
     storage |-> [NoStorage EXCEPT ![StoragePath(Dir_Code, File_Json)] = Doc_w]],
    [host |-> [platform |-> "darwin", appData |-> FALSE],
     storage |-> [NoStorage EXCEPT ![StoragePath(Dir_Insiders, File_Db)] = Db_w]] }

\* The repositories the run puts at RepoPath.
Repositories ==
  { FreshRepo,
    [FreshRepo EXCEPT !.gitDir = FALSE, !.valid = FALSE],
    [FreshRepo EXCEPT !.files.not_added = 1],
    [FreshRepo EXCEPT !.files.modified = 1, !.remotes = <<"origin">>],
    [FreshRepo EXCEPT !.files.modified = 1, !.remotes = <<"upstream">>] }

\* The requests of the host application.
OverlaidApps == {App_Code, App_Cursor, App_Finder}
Keywords == {<<>>, <<"G", "I", "T">>, <<"U+63A8", "U+9001">>}
ActionIds == {"git_status", "git_commit_push", "git_pull"}
PluginFaults == {NoFault, [site |-> "status", text |-> "fatal"],
                 [site |-> "push", text |-> "fatal"]}

Request(state, op, arg, keyword, out, calls, resolutions, pre) ==
  [state |-> state, op |-> op, arg |-> arg, keyword |-> keyword,
   result |-> out.result, calls |-> calls, resolutions |-> resolutions,
   pre |-> pre]

\* The IDE writes its storage, or the plugin runs on another machine.
InstallStorage ==
  /\ req = Idle
  /\ \E i \in Installations :
       /\ i # [host |-> host, storage |-> storage]
       /\ host' = i.host
       /\ storage' = i.storage
  /\ UNCHANGED <<gitVars, cacheVars, req>>

\* The user works in the repository at RepoPath, or replaces it.
SetRepository ==
  /\ req = Idle
  /\ \E r \in Repositories : r # repo /\ repo' = r
  /\ UNCHANGED <<gitOut, cacheVars, pluginVars>>

GetActions ==
  /\ req = Idle
  /\ \E keyword \in Keywords, overlaidApp \in OverlaidApps, F \in PluginFaults,
        ioApp \in BOOLEAN, ioWorkspace \in BOOLEAN :
       \E out \in {getActions(keyword, overlaidApp, cacheFile, disk, repo, host,
                               storage, F, ioApp, ioWorkspace)} :
           /\ cacheFile' = out.file
           /\ req' = Request(out.kind, "getActions", overlaidApp, keyword, out,
                             out.calls, out.resolved,
                             [cacheFile |-> cacheFile, repo |-> repo])
  /\ lastSave' = NoSave
  /\ UNCHANGED <<gitVars, disk, cacheOut, host, storage>>

\* executeAction(action) is called: its body runs once.
ExecuteAction ==
  /\ req = Idle
  /\ \E id \in ActionIds, F \in PluginFaults, ioWorkspace \in BOOLEAN :
       \E out \in {executeAction(id, cacheFile, disk, repo, host, storage, F,
                                  ioWorkspace)} :
           /\ out.repo.commits <= MaxCommits
           /\ cacheFile' = out.file
           /\ repo' = out.repo
           /\ req' = Request(out.kind, "executeAction", id, <<>>, out, out.calls,
                             out.resolved,
                             [cacheFile |-> cacheFile, repo |-> repo])
  /\ lastSave' = NoSave
  /\ UNCHANGED <<gitOut, disk, cacheOut, host, storage>>

\* return this.executeAction(action) (line 152): the body runs once more.
ExecuteActionAgain ==
  /\ req.state = "recursing"
  /\ req.resolutions < MaxResolve
  /\ \E F \in PluginFaults, ioWorkspace \in BOOLEAN :
       \E out \in {executeAction(req.arg, cacheFile, disk, repo, host, storage,
                                  F, ioWorkspace)} :
           /\ out.repo.commits <= MaxCommits
           /\ cacheFile' = out.file
           /\ repo' = out.repo
           /\ req' = Request(out.kind, "executeAction", req.arg, <<>>, out,
                             req.calls \o out.calls,
                             req.resolutions + out.resolved, req.pre)
  /\ lastSave' = NoSave
  /\ UNCHANGED <<gitOut, disk, cacheOut, host, storage>>

\* The host application has the answer; after an exception that escaped, the
\* plugin is loaded anew.
PluginReturn ==
  /\ req.state \in {"done", "escaped"}
  /\ req' = Idle
  /\ UNCHANGED <<gitVars, cacheVars, host, storage>>

\* Outside the plugin the directory at RepoPath is created, or deleted.
CreateWorkspace ==
  /\ req = Idle
  /\ RepoPath \notin disk
  /\ disk' = disk \cup {RepoPath}
  /\ UNCHANGED <<gitVars, cacheFile, cacheOut, lastSave, pluginVars>>

DeleteWorkspace ==
  /\ req = Idle
  /\ RepoPath \in disk
  /\ disk' = disk \ {RepoPath}
  /\ UNCHANGED <<gitVars, cacheFile, cacheOut, lastSave, pluginVars>>

NextPlugin ==
  \/ InstallStorage
  \/ SetRepository
  \/ CreateWorkspace
  \/ DeleteWorkspace
  \/ ClobberCache
  \/ GetActions
  \/ ExecuteAction
  \/ ExecuteActionAgain
  \/ PluginReturn

SpecPlugin == Init /\ [][NextPlugin]_vars

\* -------------------------------------------------------------- locator run
\* The storage files of the run: at most MaxStorageFiles exist at once, on any
\* of the hosts that differ for the locators.
LocateHosts == {h \in Hosts : h.appData => h.platform = "win32"}
Path_v == <<"/", "v">>
Uri_v == FileScheme \o Path_v
\* Text that is not JSON; two JSON documents that name different folders, in
\* the fields of both IDEs; a database whose first row is not JSON.
Doc_a == TextFile(ObjectDoc(Path_uri, Undefined, Path_uri))
Doc_b == TextFile(ObjectDoc(Undefined, Uri_v, Path_v))
StorageContents == {TextFile(GarbageDoc), Doc_a, Doc_b, Db_w}
Existing(st) == {p \in StoragePaths : st[p].kind # "absent"}

\* An IDE writes one of its storage files.
WriteStorageFile ==
  /\ req = Idle
  /\ \E p \in StoragePaths, c \in StorageContents :
       /\ storage[p] # c
       /\ Cardinality(Existing(storage) \cup {p}) <= MaxStorageFiles
       /\ storage' = [storage EXCEPT ![p] = c]
  /\ UNCHANGED <<gitVars, cacheVars, host, req>>

\* A storage file is deleted.
RemoveStorageFile ==
  /\ req = Idle
  /\ \E p \in Existing(storage) : storage' = [storage EXCEPT ![p] = Absent]
  /\ UNCHANGED <<gitVars, cacheVars, host, req>>

\* The plugin runs on another machine, which holds the same files.
SwitchHost ==
  /\ req = Idle
  /\ \E h \in LocateHosts : h # host /\ host' = h
  /\ UNCHANGED <<gitVars, cacheVars, storage, req>>

\* getWorkspace() of the locator of an IDE.
LocateWorkspace ==
  /\ req = Idle
  /\ \E app \in {App_Code, App_Cursor} :
       \E located \in {Locate(app, host, storage)} :
         req' = Request(IF located.escaped THEN "escaped" ELSE "done", "locate",
                        app, <<>>, [result |-> located.value], <<>>, 1,
                        [cacheFile |-> cacheFile, repo |-> repo])
  /\ UNCHANGED <<gitVars, cacheVars, host, storage>>

NextLocate ==
  \/ WriteStorageFile
  \/ RemoveStorageFile
  \/ SwitchHost
  \/ LocateWorkspace
  \/ PluginReturn

SpecLocate == Init /\ [][NextLocate]_vars

\* ------------------------------------------------------- normalisation run
\* The strings handed to the path normalisation: a file:// prefix or none,
\* before up to MaxLen of the characters / % 2 5.
CodecAlphabet == {"/", "%", "2", "5"}
CodecBodies == UNION {[1..n -> CodecAlphabet] : n \in 0..MaxLen}
CodecInputs ==
  {prefix \o body : prefix \in {<<>>, FileScheme}, body \in CodecBodies}
\* A path on its way through the normalisations: first is its value after the
\* first one (Undefined before it), value the one it has now.
Codec(input, first, value, passes) ==
  [state |-> "codec", op |-> "normalize", input |-> input, first |-> first,
   value |-> value, passes |-> passes]

InitCodec ==
  /\ InitGit /\ InitCache
  /\ host = [platform |-> "linux", appData |-> FALSE]
  /\ storage = [p \in StoragePaths |-> Absent]
  /\ req \in {Codec(s, Undefined, s, 0) : s \in CodecInputs}

\* workspacePath.replace('file://', '') and decodeURIComponent, as the locator
\* does it (part_000 lines 121-124): null when the value is falsy or the
\* decoding throws.
NormalizeByLocator ==
  /\ req.state = "codec" /\ req.passes = 0
  /\ \E v \in {IF Falsy(req.value) THEN Null
               ELSE LET decoded == decodeURIComponent(ReplaceFirstScheme(req.value))
                    IN  IF decoded.ok THEN decoded.value ELSE Null} :
       req' = Codec(req.input, v, v, 1)
  /\ UNCHANGED <<gitVars, cacheVars, host, storage>>

\* WorkspaceCache.saveWorkspace stores cleanWorkspacePath(workspace).
NormalizeByCache ==
  /\ req.state = "codec" /\ req.passes < MaxPasses
  /\ \E v \in {cleanCachePath(req.value)} :
       req' = Codec(req.input, IF req.passes = 0 THEN v ELSE req.first, v,
                    req.passes + 1)
  /\ UNCHANGED <<gitVars, cacheVars, host, storage>>

\* new GitService(workspacePath) cleans a path that is not falsy.
NormalizeByGit ==
  /\ req.state = "codec" /\ req.passes < MaxPasses
  /\ ~Falsy(req.value)
  /\ \E v \in {cleanGitPath(req.value)} :
       req' = Codec(req.input, IF req.passes = 0 THEN v ELSE req.first, v,
                    req.passes + 1)
  /\ UNCHANGED <<gitVars, cacheVars, host, storage>>

NextCodec ==
  \/ NormalizeByLocator
  \/ NormalizeByCache
  \/ NormalizeByGit

SpecCodec == InitCodec /\ [][NextCodec]_vars

\* ------------------------------------------------- two writers of the cache
\* Two processes run saveCurrentApp or saveWorkspace at once.  The cache file
\* is kept as its text, a sequence of characters: fs.readFileSync returns the
\* text there is, and fs.writeFileSync(file, text) opens the file with flag
\* 'w', which creates or empties it, and then writes the text through its own
\* descriptor from position 0; the two are separate system calls, and
\* characters beyond the written ones stay where they are.
Writers == {1, 2}
Entry(key, value) == [key |-> key, value |-> value]
RaceApps == {App_Code, App_Cursor}
RacePaths == {Path_w, Path_pct, Null}
RaceEntries ==
  {Entry(CURRENT_APP_KEY, a) : a \in RaceApps}
    \cup {Entry(a, w) : a \in RaceApps, w \in RacePaths}
RaceKeys == {e.key : e \in RaceEntries}
\* The objects the file may hold: entries in insertion order, a key once.
RaceObjects ==
  {es \in UNION {[1..n -> RaceEntries] : n \in 0..Cardinality(RaceKeys)} :
     \A i, j \in 1..Len(es) : es[i].key = es[j].key => i = j}
\* The calls: saveCurrentApp(appId) and saveWorkspace(appId, workspace).
RaceCalls ==
  {[op |-> "saveCurrentApp", appId |-> a, workspace |-> Null] : a \in RaceApps}
    \cup {[op |-> "saveWorkspace", appId |-> a, workspace |-> w] :
            a \in RaceApps, w \in {Path_w, Path_enc, Null}}

\* cacheData[key], and cacheData[key] = v, on the ordered entries
GetEntry(es, key) ==
  IF \E i \in 1..Len(es) : es[i].key = key
  THEN es[CHOOSE i \in 1..Len(es) : es[i].key = key].value
  ELSE Undefined
PutEntry(es, key, v) ==
  IF \E i \in 1..Len(es) : es[i].key = key
  THEN [i \in 1..Len(es) |-> IF es[i].key = key THEN Entry(key, v) ELSE es[i]]
  ELSE Append(es, Entry(key, v))

\* JSON.stringify(cacheData, null, 2)
KeyText(key) ==
  IF key = CURRENT_APP_KEY
  THEN <<"_", "c", "u", "r", "r", "e", "n", "t", "_", "a", "p", "p", "_">>
  ELSE key
ValueText(v) ==
  IF v = Null THEN <<"n", "u", "l", "l">> ELSE <<"\"">> \o v \o <<"\"">>
EntryText(e) ==
  <<" ", " ", "\"">> \o KeyText(e.key) \o <<"\"", ":", " ">> \o ValueText(e.value)
RECURSIVE EntriesText(_)
EntriesText(es) ==
  IF Len(es) = 1 THEN EntryText(es[1])
  ELSE EntryText(es[1]) \o <<",", "\n">> \o EntriesText(Tail(es))
Stringify(es) ==
  IF es = <<>> THEN <<"{", "}">>
  ELSE <<"{", "\n">> \o EntriesText(es) \o <<"\n", "}">>

\* JSON.parse(content): the object whose text it is, if there is one
ParseText(text) ==
  LET hits == {es \in RaceObjects : Stringify(es) = text}
  IN  IF hits = {} THEN [ok |-> FALSE, value |-> <<>>]
      ELSE [ok |-> TRUE, value |-> CHOOSE es \in hits : TRUE]
\* The file as the cache's readers take it.
FileOf(exists, text) ==
  IF ~exists THEN MissingFile
  ELSE LET parsed == ParseText(text)
       IN  IF parsed.ok
           THEN JsonFile([k \in {e.key : e \in {parsed.value[i] : i \in 1..Len(parsed.value)}}
                            |-> GetEntry(parsed.value, k)])
           ELSE GarbageFile
\* write(fd, text) at position 0 of a file that holds old
Overwrite(old, text) ==
  IF Len(text) >= Len(old) THEN text
  ELSE text \o SubSeq(old, Len(text) + 1, Len(old))

\* The key and the value a call stores (lines 67 and 118, 132).
KeyOf(call) == IF call.op = "saveCurrentApp" THEN CURRENT_APP_KEY ELSE call.appId
ValueOf(call) ==
  IF call.op = "saveCurrentApp" THEN call.appId
  ELSE cleanCachePath(call.workspace)

Writer(pc, call, cacheData) == [pc |-> pc, call |-> call, cacheData |-> cacheData]
Race(initial, exists, text, proc, order, last) ==
  [state |-> "race", op |-> "save", initial |-> initial, exists |-> exists,
   text |-> text, proc |-> proc, order |-> order, last |-> last]
NoStep == [writer |-> 0, step |-> "none"]
\* The cache before the two calls: no file, or the file an earlier call wrote.
RaceInitial == {<<>>, <<Entry(App_Code, Path_w)>>,
                <<Entry(App_Code, Path_w), Entry(CURRENT_APP_KEY, App_Code)>>}

InitRace ==
  /\ InitGit
  /\ disk = {} /\ cacheOut = NoCacheOut /\ lastSave = NoSave
  /\ host = [platform |-> "linux", appData |-> FALSE]
  /\ storage = [p \in StoragePaths |-> Absent]
  /\ \E initial \in RaceInitial, c1 \in RaceCalls, c2 \in RaceCalls :
       /\ req = Race(initial, initial # <<>>, 
                     IF initial = <<>> THEN <<>> ELSE Stringify(initial),
                     [p \in Writers |-> Writer("read", IF p = 1 THEN c1 ELSE c2, <<>>)],
                     <<>>, NoStep)
       /\ cacheFile = FileOf(req.exists, req.text)

\* existsSync, readFileSync and JSON.parse (lines 56-64, 121-129), then the
\* assignment to cacheData (67, 132): text that does not parse leaves {}.
ReadCache(p) ==
  /\ req.state = "race" /\ req.proc[p].pc = "read"
  /\ \E parsed \in {IF req.exists THEN ParseText(req.text)
                    ELSE [ok |-> FALSE, value |-> <<>>]} :
       req' = [req EXCEPT
                 !.proc[p] = Writer("open", @.call,
                                    PutEntry(parsed.value, KeyOf(@.call),
                                             ValueOf(@.call))),
                 !.last = [writer |-> p, step |-> "read"]]
  /\ UNCHANGED <<gitVars, cacheVars, host, storage>>

\* writeFileSync, first half: open(file, 'w') creates or empties the file.
OpenCache(p) ==
  /\ req.state = "race" /\ req.proc[p].pc = "open"
  /\ req' = [req EXCEPT !.proc[p].pc = "write", !.exists = TRUE, !.text = <<>>,
                        !.last = [writer |-> p, step |-> "open"]]
  /\ cacheFile' = GarbageFile
  /\ UNCHANGED <<gitVars, disk, cacheOut, lastSave, host, storage>>

\* writeFileSync, second half: the text is written from position 0.
WriteCache(p) ==
  /\ req.state = "race" /\ req.proc[p].pc = "write"
  /\ \E text \in {Overwrite(req.text, Stringify(req.proc[p].cacheData))} :
       /\ req' = [req EXCEPT !.proc[p].pc = "done", !.text = text,
                             !.order = Append(@, p),
                             !.last = [writer |-> p, step |-> "write"]]
       /\ cacheFile' = FileOf(TRUE, text)
  /\ UNCHANGED <<gitVars, disk, cacheOut, lastSave, host, storage>>

NextRace ==
  \/ \E p \in Writers : ReadCache(p)
  \/ \E p \in Writers : OpenCache(p)
  \/ \E p \in Writers : WriteCache(p)

SpecRace == InitRace /\ [][NextRace]_vars

\* -------------------------------------------------------------- session run
\* The user moves between two IDEs and another application; each IDE has a
\* folder open, named in its storage.json as a file URI.  The run remembers
\* the last getActions request that came from a supported IDE:
\*   app       its overlaidApp;
\*   resolved  what the locator returned for it;
\*   listed    whether it returned a list that is not empty;
\*   saved     whether its writes of the cache went through;
\*   changed   whether a folder was opened or deleted since;
\* and of the executeAction request that is being served, or has just been
\* answered, the workspace its GitService was bound to (Null when it got to
\* none).
SessionFolders == {Path_w, Path_v}
NoRequest == [app |-> <<>>, resolved |-> Null, listed |-> FALSE, saved |-> FALSE,
              changed |-> FALSE]
NoExec == [state |-> "none", id |-> "", tag |-> "none", workspace |-> Null,
           resolutions |-> 0]
Session(last, exec) ==
  [state |-> "session", op |-> "session", last |-> last, exec |-> exec]
StorageFileOf(app) ==
  IF IsCursor(app) THEN StoragePath(Dir_Cursor, File_Json)
  ELSE StoragePath(Dir_Code, File_Json)
FolderDoc(app, folder) ==
  IF IsCursor(app) THEN TextFile(ObjectDoc(Undefined, Undefined, FileScheme \o folder))
  ELSE TextFile(ObjectDoc(FileScheme \o folder, Undefined, Undefined))

InitSession ==
  /\ InitGit /\ InitCache
  /\ host = [platform |-> "linux", appData |-> FALSE]
  /\ storage = [p \in StoragePaths |-> Absent]
  /\ req = Session(NoRequest, NoExec)

\* An IDE opens a folder, which exists then, and records it in its storage.
OpenFolder ==
  /\ req.state = "session" /\ req.exec.state # "recursing"
  /\ \E app \in {App_Code, App_Cursor}, folder \in SessionFolders :
       /\ storage[StorageFileOf(app)] # FolderDoc(app, folder)
       /\ storage' = [storage EXCEPT ![StorageFileOf(app)] = FolderDoc(app, folder)]
       /\ disk' = disk \cup {folder}
  /\ req' = Session([req.last EXCEPT !.changed = TRUE], NoExec)
  /\ UNCHANGED <<gitVars, cacheFile, cacheOut, lastSave, host>>

\* A folder is deleted.
DeleteFolder ==
  /\ req.state = "session" /\ req.exec.state # "recursing"
  /\ \E folder \in disk : disk' = disk \ {folder}
  /\ req' = Session([req.last EXCEPT !.changed = TRUE], NoExec)
  /\ UNCHANGED <<gitVars, cacheFile, cacheOut, lastSave, host, storage>>

\* getActions({overlaidApp}), from any of the applications.
SessionGetActions ==
  /\ req.state = "session" /\ req.exec.state # "recursing"
  /\ \E overlaidApp \in OverlaidApps, ioApp \in BOOLEAN, ioWorkspace \in BOOLEAN :
       \E out \in {getActions(<<>>, overlaidApp, cacheFile, disk, repo, host,
                               storage, NoFault, ioApp, ioWorkspace)} :
           /\ cacheFile' = out.file
           /\ req' = Session(IF IsVSCode(overlaidApp) \/ IsCursor(overlaidApp)
                             THEN [app |-> overlaidApp,
                                   resolved |-> Locate(overlaidApp, host, storage).value,
                                   listed |-> out.kind = "done" /\ out.result # <<>>,
                                   saved |-> ~ioApp /\ ~ioWorkspace,
                                   changed |-> FALSE]
                             ELSE req.last,
                             NoExec)
  /\ UNCHANGED <<gitVars, disk, cacheOut, lastSave, host, storage>>

\* One run of the body of executeAction, for the action id, as part of the
\* request that has used resolutions locator calls so far.
ExecuteBody(id, resolutions) ==
  \E ioWorkspace \in BOOLEAN :
    \E out \in {executeAction(id, cacheFile, disk, repo, host, storage, NoFault,
                               ioWorkspace)} :
        /\ out.repo.commits <= MaxCommits
        /\ cacheFile' = out.file
        /\ repo' = out.repo
        /\ req' = Session(req.last,
                          [state |-> out.kind, id |-> id, tag |-> out.result.tag,
                           workspace |-> getWorkspace(cacheFile, Undefined, disk),
                           resolutions |-> resolutions + out.resolved])

\* executeAction(action) is called.
SessionExecute ==
  /\ req.state = "session" /\ req.exec.state # "recursing"
  /\ \E id \in ActionIds : ExecuteBody(id, 0)
  /\ UNCHANGED <<gitOut, disk, cacheOut, lastSave, host, storage>>

\* return this.executeAction(action) (line 152)
SessionExecuteAgain ==
  /\ req.state = "session" /\ req.exec.state = "recursing"
  /\ req.exec.resolutions < MaxResolve
  /\ ExecuteBody(req.exec.id, req.exec.resolutions)
  /\ UNCHANGED <<gitOut, disk, cacheOut, lastSave, host, storage>>

NextSession ==
  \/ OpenFolder
  \/ DeleteFolder
  \/ SessionGetActions
  \/ SessionExecute
  \/ SessionExecuteAgain

SpecSession == InitSession /\ [][NextSession]_vars

\* =================================================================== claims
\* Helpers over the record of the last GitService call.
CallsOf(calls, cmd) == {i \in 1..Len(calls) : calls[i].cmd = cmd}
Ran(calls, cmd) == CallsOf(calls, cmd) # {}
RanOk(calls, cmd) == \E i \in CallsOf(calls, cmd) : ~calls[i].err.threw
RanThrew(calls, cmd) == \E i \in CallsOf(calls, cmd) : calls[i].err.threw
NoInjected(calls) == \A i \in 1..Len(calls) : ~calls[i].err.injected
IsRepository(r) == r.dir /\ r.gitDir /\ r.valid
ChangedCount(r) == changedFilesCountOf(StatusResult(r))
DidCommitAndPush == gitOut.op = "commitAndPush"
DidGetStatus == gitOut.op = "getStatus"

\* C1: in commitAndPush, when staging and the commit succeed but the push
\* throws, the result is success=false with a message carrying the error's
\* text, and the commit stays: the commit count is one higher than before.
C1_PushFailureKeepsCommit ==
  (DidCommitAndPush /\ RanOk(gitOut.calls, "add") /\ RanOk(gitOut.calls, "commit")
     /\ RanThrew(gitOut.calls, "push"))
  => /\ gitOut.result.success = FALSE
     /\ gitOut.result.message.tag = "commit_push_failed"
     /\ \A i \in CallsOf(gitOut.calls, "push") :
          gitOut.calls[i].err.text # ""
            => gitOut.result.message.detail = gitOut.calls[i].err.text
     /\ repo.commits = gitOut.pre.commits + 1

C1_Witness ==
  /\ DidCommitAndPush
  /\ RanOk(gitOut.calls, "add") /\ RanOk(gitOut.calls, "commit")
  /\ \E i \in CallsOf(gitOut.calls, "push") :
       /\ gitOut.calls[i].err.threw /\ gitOut.calls[i].err.injected
       /\ gitOut.calls[i].err.text = "fatal"
  /\ gitOut.result.message.detail = "fatal"
  /\ repo.commits = 1

\* C2: commitAndPush on a repository whose changed-file count is zero returns
\* success=false and runs none of stage, commit, push: the commit count and
\* the index (the whole repository) are as before.
C2_NothingToCommit ==
  (DidCommitAndPush /\ IsRepository(gitOut.pre) /\ ChangedCount(gitOut.pre) = 0)
  => /\ gitOut.result.success = FALSE
     /\ ~Ran(gitOut.calls, "add") /\ ~Ran(gitOut.calls, "commit")
     /\ ~Ran(gitOut.calls, "push")
     /\ repo.commits = gitOut.pre.commits
     /\ repo.index = gitOut.pre.index
     /\ repo = gitOut.pre

C2_Witness ==
  /\ DidCommitAndPush /\ IsRepository(gitOut.pre) /\ ChangedCount(gitOut.pre) = 0
  /\ gitOut.result.message.tag = "nothing_to_commit"
  /\ gitOut.pre.commits = 1

\* C3: commitAndPush on a repository with at least one change and no remote
\* never runs push; and when no VCS command fails it returns success=true with
\* the not-pushed message and has made exactly one commit.
C3_NoRemoteCommitsOnly ==
  (DidCommitAndPush /\ IsRepository(gitOut.pre) /\ ChangedCount(gitOut.pre) >= 1
     /\ Len(gitOut.pre.remotes) = 0)
  => /\ ~Ran(gitOut.calls, "push")
     /\ (NoInjected(gitOut.calls)
          => /\ gitOut.result.success = TRUE
             /\ gitOut.result.message.tag = "committed_no_remote"
             /\ Cardinality(CallsOf(gitOut.calls, "commit")) = 1
             /\ repo.commits = gitOut.pre.commits + 1)

C3_Witness ==
  /\ DidCommitAndPush /\ IsRepository(gitOut.pre) /\ ChangedCount(gitOut.pre) >= 1
  /\ Len(gitOut.pre.remotes) = 0 /\ NoInjected(gitOut.calls)
  /\ gitOut.result.success /\ repo.commits = 1

\* C4: whenever commitAndPush reaches the push step it pushes the current
\* branch to the first configured remote, whatever the remotes are called: the
\* remote hasUnpushedCommits compares against.
C4_PushesToFirstRemote ==
  DidCommitAndPush
  => \A i \in CallsOf(gitOut.calls, "push") :
       /\ gitOut.calls[i].args[1] = gitOut.pre.remotes[1]
       /\ gitOut.calls[i].args[1] = DefaultRemote(gitOut.pre.remotes)
       /\ gitOut.calls[i].args[2] = gitOut.pre.current

\* C5: hasUnpushedCommits as getStatus reports it on a repository (no VCS
\* command failing): false without a current branch or without a remote; true
\* when the remote-tracking ref of the branch on the first remote is absent;
\* otherwise true exactly when the local branch has commits the ref lacks.
UnpushedExpected(r) ==
  IF r.current = "" \/ Len(r.remotes) = 0 THEN FALSE
  ELSE IF r.tracking[r.remotes[1]] = NoRef THEN TRUE
  ELSE r.commits - r.tracking[r.remotes[1]] > 0

C5_UnpushedCommits ==
  (DidGetStatus /\ IsRepository(gitOut.pre) /\ NoInjected(gitOut.calls))
  => /\ gitOut.result.isRepo
     /\ gitOut.result.hasUnpushedCommits = UnpushedExpected(gitOut.pre)

\* The three cases of C5 happen: never pushed on the first of two remotes,
\* ahead of the ref, and level with it.
C5_Witness ==
  /\ DidGetStatus /\ IsRepository(gitOut.pre) /\ NoInjected(gitOut.calls)
  /\ Len(gitOut.pre.remotes) = 2
  /\ gitOut.pre.tracking[gitOut.pre.remotes[1]] = 0
  /\ gitOut.pre.tracking[gitOut.pre.remotes[2]] = NoRef
  /\ gitOut.pre.commits = 1
  /\ gitOut.result.hasUnpushedCommits

\* C6: cache round trip: for every application id and every path p that exists
\* on disk, saveWorkspace(appId, p) followed by getWorkspace(appId), with no
\* write to that key in between, returns p; and repeating the save changes
\* nothing.  (Stated for saves that took effect: no I/O failure, and a cache
\* file that was missing, unparsable or an object; and for an appId that is
\* neither empty, which getWorkspace reads as no appId at all, nor the
\* reserved key.)
C6_RoundTrip ==
  /\ (cacheOut.op = "getWorkspace" /\ lastSave # NoSave
        /\ cacheOut.appId = lastSave.appId
        /\ lastSave.appId \notin {<<>>, CURRENT_APP_KEY}
        /\ lastSave.workspace \in disk)
     => cacheOut.value = lastSave.workspace
  /\ (cacheOut.op = "saveWorkspace" /\ cacheOut.repeat)
     => cacheFile = cacheOut.pre

\* C7: getWorkspace, with or without an appId, returns absent or a path that
\* exists on disk at the time of the read, and the read leaves the cache file
\* as it was.
C7_NoDanglingPath ==
  cacheOut.op = "getWorkspace"
  => /\ cacheOut.value = Null \/ cacheOut.value \in disk
     /\ cacheFile = cacheOut.pre

\* A stale entry: the key holds a path that is no longer on disk, and the
\* read, through the current-application pointer, answers absent.
C7_Witness ==
  /\ cacheOut.op = "getWorkspace" /\ cacheOut.appId = Undefined
  /\ cacheFile.kind = "json" /\ cacheFile.isObject
  /\ Get(cacheFile.data, CURRENT_APP_KEY) = App_Code
  /\ Get(cacheFile.data, App_Code) = Path_w
  /\ Path_w \notin disk
  /\ cacheOut.value = Null

\* Helpers over the request that is being served.
DidExecuteAction == req.state # "idle" /\ req.op = "executeAction"
\* The live re-resolution for the current application of the cache file yields
\* no workspace: there is no current application, it matches no supported IDE,
\* or its locator returns an absent value.
NoLiveWorkspace(file) ==
  LET currentApp == getCurrentApp(file)
  IN  \/ Falsy(currentApp)
      \/ ~IsVSCode(currentApp) /\ ~IsCursor(currentApp)
      \/ LET fresh == Locate(currentApp, host, storage)
         IN  ~fresh.escaped /\ Falsy(fresh.value)

\* C8: executeAction's fallback is one-shot: within one request the locator is
\* consulted (and the cache rewritten) at most once, whatever the cache holds,
\* whatever the locator returns, whether or not the cache write succeeds and
\* whether or not the re-resolved path exists on disk.
C8_OneShotFallback == DidExecuteAction => req.resolutions <= 1

\* C9: when executeAction finds no valid cached workspace and the live
\* re-resolution yields none either, the request returns the fixed
\* workspace-unavailable message, runs no VCS command and leaves the cache
\* file (and the repository) as they were.
C9_WorkspaceUnavailable ==
  (/\ DidExecuteAction
   /\ Falsy(getWorkspace(req.pre.cacheFile, Undefined, disk))
   /\ NoLiveWorkspace(req.pre.cacheFile))
  => /\ req.state = "done"
     /\ req.result.tag = "workspace_unavailable"
     /\ req.calls = <<>>
     /\ cacheFile = req.pre.cacheFile
     /\ repo = req.pre.repo

\* The cache misses, the current application is VS Code, its locator was
\* consulted and found nothing, and the request returned the message.
C9_Witness ==
  /\ DidExecuteAction
  /\ req.state = "done"
  /\ req.result.tag = "workspace_unavailable"
  /\ getCurrentApp(req.pre.cacheFile) = App_Code
  /\ req.resolutions = 1
  /\ req.calls = <<>>
  /\ cacheFile = req.pre.cacheFile

\* C10: no exception escapes a public entry point: getActions and
\* executeAction complete with a normal value for every storage content and
\* every VCS command that throws.
C10_NoExceptionEscapes == req.state # "escaped"

\* Helpers over a getActions request that has returned.
DidGetActions == req.state = "done" /\ req.op = "getActions"
IsSupportedIde(app) == IsVSCode(app) \/ IsCursor(app)
\* The ids of the returned actions.
ActionIdsOf(actions) == {actions[i].id : i \in 1..Len(actions)}
\* The repository at the workspace the locator resolves for the application.
LocatedRepo(app, r) == BoundRepo(Locate(app, host, storage).value, disk, r)
ResolvedWorkspace(app) ==
  /\ IsSupportedIde(app)
  /\ ~Locate(app, host, storage).escaped
  /\ ~Falsy(Locate(app, host, storage).value)

\* C11: for a supported IDE with a resolved workspace and an empty keyword
\* (and no VCS command failing), the list of getActions holds git_status
\* exactly when the workspace is a repository, and git_commit_push exactly
\* when it is a repository with a changed-file count above zero;
\* git_commit_push never comes without git_status.
C11_ActionsMatchRepository ==
  (DidGetActions /\ ResolvedWorkspace(req.arg) /\ req.keyword = <<>>
     /\ NoInjected(req.calls))
  => LET bound == LocatedRepo(req.arg, req.pre.repo)
         ids == ActionIdsOf(req.result)
     IN  /\ "git_status" \in ids <=> IsRepository(bound)
         /\ "git_commit_push" \in ids
              <=> (IsRepository(bound) /\ ChangedCount(bound) > 0)
         /\ "git_commit_push" \in ids => "git_status" \in ids

\* A repository with a changed file: both entries are listed.
C11_Witness ==
  /\ DidGetActions /\ ResolvedWorkspace(req.arg) /\ req.keyword = <<>>
  /\ NoInjected(req.calls)
  /\ IsRepository(LocatedRepo(req.arg, req.pre.repo))
  /\ ChangedCount(LocatedRepo(req.arg, req.pre.repo)) > 0
  /\ ActionIdsOf(req.result) = {"git_status", "git_commit_push"}

\* The action ids executeAction has a case for.
KnownActionIds == {"git_status", "git_commit_push"}
\* No command that changes the repository ran, and the repository is as it was.
NoVcsMutation ==
  /\ ~Ran(req.calls, "add") /\ ~Ran(req.calls, "commit") /\ ~Ran(req.calls, "push")
  /\ repo = req.pre.repo

DidLocate == req.state = "done" /\ req.op = "locate"
\* possiblePaths of the locator of the application.
CandidatesOf(app, h) == IF IsCursor(app) THEN CursorPaths(h) ELSE VSCodePaths(h)
\* The candidates of the application that exist, in priority order.
ExistingCandidates(app, h, st) ==
  SelectSeq(CandidatesOf(app, h), LAMBDA p : st[p].kind # "absent")
\* The storage with every file but p deleted.
OnlyFile(st, p) == [q \in StoragePaths |-> IF q = p THEN st[q] ELSE Absent]

\* C13: locate reads only the first existing candidate of the IDE variant, in
\* its fixed priority order: the result is the one the locator gives when that
\* file is the only one there is, whatever the other candidates hold.
C13_FirstExistingOnly ==
  DidLocate
  => LET existing == ExistingCandidates(req.arg, host, storage)
     IN  IF existing = <<>> THEN req.result = Null
         ELSE req.result
                = Locate(req.arg, host, OnlyFile(storage, existing[1])).value

\* Two candidates exist and the second alone would give another answer.
C13_Witness ==
  /\ DidLocate
  /\ Len(ExistingCandidates(req.arg, host, storage)) >= 2
  /\ ~Falsy(req.result)
  /\ LET existing == ExistingCandidates(req.arg, host, storage)
     IN  Locate(req.arg, host, OnlyFile(storage, existing[2])).value # req.result

\* C14: a parse error on one candidate storage file, or on one row of the
\* key-value store, is swallowed and the scan goes on with the next candidate
\* or row: locate returns absent only when no existing candidate of the IDE
\* variant yields a workspace folder.
C14_AbsentOnlyWhenExhausted ==
  (DidLocate /\ req.result = Null)
  => LET existing == ExistingCandidates(req.arg, host, storage)
     IN  \A i \in 1..Len(existing) :
           Falsy(Locate(req.arg, host, OnlyFile(storage, existing[i])).value)

\* C15: path normalisation (strip a leading file:// prefix, then
\* percent-decode) is idempotent: a path that has been normalised once keeps
\* its value under every further normalisation, by the cache or by the
\* GitService constructor.
C15_NormalizeIdempotent ==
  (req.state = "codec" /\ req.passes >= 2) => req.value = req.first


\* The folder values a storage file holds, as the IDE wrote them.
StoredFolders(content) ==
  IF content.kind = "text"
  THEN IF content.doc.kind = "object"
       THEN {content.doc.openedFolderUri, content.doc.windowFolderUri,
             content.doc.cursorFolder}
       ELSE {}
  ELSE IF content.kind = "sqlite"
  THEN UNION {{content.rows[i].folderUri, content.rows[i].uri} :
                i \in {j \in 1..Len(content.rows) : content.rows[j].kind = "json"}}
  ELSE {}

\* C16: every path that locate returns, for both IDE variants and both storage
\* formats, has been through the path normalisation: it carries no file://
\* prefix and it is the percent-decoded form of a folder value of the storage
\* file that was read.
C16_LocatedPathNormalized ==
  (DidLocate /\ ~Falsy(req.result))
  => /\ ~IsPrefixAt(FileScheme, req.result, 1)
     /\ LET existing == ExistingCandidates(req.arg, host, storage)
        IN  \E raw \in StoredFolders(storage[existing[1]]) :
              ~Falsy(raw) /\ req.result = cleanGitPath(raw)


\* C17: every summary that getStatus returns, a command having thrown part-way
\* or not: with isRepo false it is the default summary (empty branch, count 0,
\* no changes, nothing unpushed); hasChanges holds exactly when
\* changedFilesCount > 0; and for a repository changedFilesCount is the sum of
\* the created, deleted, modified, renamed and untracked counts of the working
\* tree the one status query saw.
C17_StatusSummaryInvariant ==
  DidGetStatus
  => LET s == gitOut.result
         f == gitOut.pre.files
     IN  /\ ~s.isRepo
              => /\ s.branch = "" /\ s.changedFilesCount = 0
                 /\ ~s.hasChanges /\ ~s.hasUnpushedCommits
         /\ s.hasChanges <=> s.changedFilesCount > 0
         /\ s.isRepo
              => /\ s.changedFilesCount
                      = f.created + f.deleted + f.modified + f.renamed
                          + f.not_added
                 /\ RanOk(gitOut.calls, "status")

\* A repository with untracked files only was summarised.
C17_UntrackedCounted ==
  /\ DidGetStatus /\ gitOut.result.isRepo
  /\ gitOut.pre.files.not_added > 0
  /\ gitOut.pre.files.created + gitOut.pre.files.deleted
       + gitOut.pre.files.modified + gitOut.pre.files.renamed = 0
  /\ gitOut.result.hasChanges

\* The status query threw after the repository check, over a changed tree.
C17_Witness ==
  /\ DidGetStatus
  /\ RanOk(gitOut.calls, "revparse") /\ RanThrew(gitOut.calls, "status")
  /\ Len(gitOut.calls) = 2
  /\ gitOut.pre.files.modified > 0
  /\ gitOut.result = defaultStatus


\* Helpers over the two writers of the cache.
RaceOver == req.state = "race" /\ Len(req.order) = Cardinality(Writers)
WroteLast == req.state = "race" /\ req.last.step = "write"
StoredKey(p) == KeyOf(req.proc[p].call)
StoredValue(p) == ValueOf(req.proc[p].call)

\* C18: two processes interleave the steps of their read-modify-write of the
\* cache in any order.  After each write the file is the complete text of the
\* object one writer built; and when both have written, the later writer's
\* value is there, every key neither call stores is as it was before, and the
\* earlier writer's key holds its value or, that one lost, what it held before.
C18_LastWriterWins ==
  /\ WroteLast
       => /\ cacheFile.kind = "json"
          /\ req.text = Stringify(req.proc[req.last.writer].cacheData)
  /\ RaceOver
       => LET earlier == req.order[1]
              later == req.order[2]
              final == ParseText(req.text)
          IN  /\ final.ok
              /\ GetEntry(final.value, StoredKey(later)) = StoredValue(later)
              /\ \A k \in RaceKeys \ {StoredKey(later), StoredKey(earlier)} :
                   GetEntry(final.value, k) = GetEntry(req.initial, k)
              /\ StoredKey(earlier) # StoredKey(later)
                   => GetEntry(final.value, StoredKey(earlier))
                        \in {StoredValue(earlier),
                             GetEntry(req.initial, StoredKey(earlier))}


\* p occurs in s, letter case set aside.
ContainsFolded(s, p) ==
  \E i \in 1..(Len(s) - Len(p) + 1) :
    \A k \in 1..Len(p) : LowerChar(s[i + k - 1]) = LowerChar(p[k])
MatchesKeyword(action, keyword) ==
  \/ ContainsFolded(action.title, keyword)
  \/ ContainsFolded(action.description, keyword)

\* C19: with a keyword that is not empty, getActions returns exactly the
\* candidate actions whose title or whose description contains the keyword,
\* letter case set aside, in their original order; a match in one of the two
\* fields is enough.
C19_KeywordFilter ==
  (DidGetActions /\ ResolvedWorkspace(req.arg) /\ req.keyword # <<>>)
  => \E F \in PluginFaults :
       LET gitStatus == GitStatusOf(LocatedRepo(req.arg, req.pre.repo), F)
       IN  /\ gitStatus.calls = req.calls
           /\ req.result
                = SelectSeq(ActionsOf(gitStatus.value),
                            LAMBDA action : MatchesKeyword(action, req.keyword))

\* Two actions were kept, one of them for its description alone.
C19_Witness ==
  /\ DidGetActions /\ ResolvedWorkspace(req.arg) /\ req.keyword # <<>>
  /\ \E i \in 1..Len(req.result) :
       /\ ~ContainsFolded(req.result[i].title, req.keyword)
       /\ ContainsFolded(req.result[i].description, req.keyword)
  /\ Len(req.result) = 2


\* Helpers over the commands of one commitAndPush.
\* The command at i ran without throwing, and before the command at j.
OkBefore(calls, cmd, j) == \E i \in CallsOf(calls, cmd) : i < j /\ ~calls[i].err.threw
\* The status query of getChangesDescription: the second one of the request.
\* What it throws is caught inside getChangesDescription and is no exception
\* of a step of commitAndPush.
DescriptionQueries(calls) ==
  {i \in CallsOf(calls, "status") : \E j \in CallsOf(calls, "status") : j < i}

\* C20: in every commitAndPush the mutations come in the order stage, commit,
\* push, each at most once.  Nothing is staged before the repository check
\* passed and the status query counted at least one change; commit runs only
\* after a stage that succeeded, push only after a commit that succeeded; and
\* a step that throws is the last command of the request.
C20_StageCommitPushInOrder ==
  DidCommitAndPush
  => LET calls == gitOut.calls
     IN  /\ \A cmd \in {"add", "commit", "push"} :
              Cardinality(CallsOf(calls, cmd)) <= 1
         /\ \A i \in CallsOf(calls, "add") :
              /\ OkBefore(calls, "revparse", i) /\ OkBefore(calls, "status", i)
              /\ IsRepository(gitOut.pre) /\ ChangedCount(gitOut.pre) > 0
         /\ \A i \in CallsOf(calls, "commit") : OkBefore(calls, "add", i)
         /\ \A i \in CallsOf(calls, "push") : OkBefore(calls, "commit", i)
         /\ \A i \in (1..Len(calls)) \ DescriptionQueries(calls) :
              calls[i].err.threw => i = Len(calls)
         /\ (\E i \in 1..Len(calls) : calls[i].cmd = "add" /\ calls[i].err.threw)
              => repo = gitOut.pre

\* The three mutations ran, in their order, and the push threw.
C20_Witness ==
  /\ DidCommitAndPush
  /\ RanOk(gitOut.calls, "add") /\ RanOk(gitOut.calls, "commit")
  /\ RanThrew(gitOut.calls, "push")
  /\ \E i \in CallsOf(gitOut.calls, "add"), j \in CallsOf(gitOut.calls, "commit"),
        k \in CallsOf(gitOut.calls, "push") : i < j /\ j < k /\ k = Len(gitOut.calls)


\* Helpers over a save of the cache that has returned.
DidSave == cacheOut.op \in {"saveCurrentApp", "saveWorkspace"}
SavedKey ==
  IF cacheOut.op = "saveCurrentApp" THEN CURRENT_APP_KEY ELSE cacheOut.appId
SavedValue ==
  IF cacheOut.op = "saveCurrentApp" THEN cacheOut.appId
  ELSE cleanCachePath(cacheOut.workspace)
\* The entries of a cache file; text that is not a JSON object has none.
EntriesOf(file) ==
  IF file.kind = "json" /\ file.isObject THEN file.data ELSE EmptyObject

\* C21: in single-process use a save whose file operations succeed changes
\* only its own key: saveWorkspace(appId, p) the entry of appId,
\* saveCurrentApp(appId) the reserved pointer.  Afterwards that key holds the
\* value written and every other entry is as it was, for every application id
\* and whatever the cache file held before.
C21_SaveChangesOnlyItsKey ==
  (DidSave /\ ~cacheOut.ioFails)
  => LET before == EntriesOf(cacheOut.pre)
         after == EntriesOf(cacheFile)
     IN  /\ cacheFile.kind = "json" /\ cacheFile.isObject
         /\ Get(after, SavedKey) = SavedValue
         /\ DOMAIN after = DOMAIN before \cup {SavedKey}
         /\ \A k \in DOMAIN before \ {SavedKey} : after[k] = before[k]


\* Helpers over the session.
\* executeAction got as far as a GitService: it ran its switch on a workspace.
ActedOnWorkspace ==
  /\ req.state = "session" /\ req.exec.state = "done"
  /\ ~Falsy(req.exec.workspace)
\* The directory a GitService is bound to for a workspace value.
DirectoryOf(workspace) == cleanGitPath(workspace)

EndedGetActions == req.state \in {"done", "escaped"} /\ req.op = "getActions"
\* The locator of the application gives no workspace.
ResolutionFailed(app) ==
  Locate(app, host, storage).escaped \/ Falsy(Locate(app, host, storage).value)

\* C23: getActions for an application that matches no supported IDE returns
\* the empty list and leaves the cache file as it was, pointer and entries;
\* and for a supported IDE whose workspace could not be resolved, the entry of
\* the application is as it was before: getActions writes an entry only when
\* the resolution succeeded.
C23_CacheWrittenOnlyOnSuccess ==
  EndedGetActions
  => /\ ~IsSupportedIde(req.arg)
          => /\ req.state = "done" /\ req.result = <<>>
             /\ cacheFile = req.pre.cacheFile
     /\ (IsSupportedIde(req.arg) /\ ResolutionFailed(req.arg))
          => Get(EntriesOf(cacheFile), req.arg)
               = Get(EntriesOf(req.pre.cacheFile), req.arg)
     /\ Get(EntriesOf(cacheFile), req.arg)
          # Get(EntriesOf(req.pre.cacheFile), req.arg)
          => (IsSupportedIde(req.arg) /\ ~ResolutionFailed(req.arg))

\* An unsupported application asked while the cache held a pointer and an
\* entry, which are still there.
C23_Witness ==
  /\ EndedGetActions /\ ~IsSupportedIde(req.arg)
  /\ getCurrentApp(cacheFile) = App_Code
  /\ Get(EntriesOf(cacheFile), App_Code) = Path_w


\* The candidates of the application on the host that belong to one build.
BuildCandidates(app, h, dir) ==
  SelectSeq(CandidatesOf(app, h), LAMBDA p : p.app = dir)
\* The storage with the files of every other build deleted.
OnlyBuild(st, dir) == [q \in StoragePaths |-> IF q.app = dir THEN st[q] ELSE Absent]
ExistsFor(app, h, st, dir) ==
  \E i \in 1..Len(BuildCandidates(app, h, dir)) :
    st[BuildCandidates(app, h, dir)[i]].kind # "absent"

\* C24: on a platform whose candidate list names the files of the Insiders
\* build and of the stable build, the Insiders files come first: when storage
\* files of both builds exist, locate reads the Insiders one, and returns what
\* it returns with the stable build's files deleted.
C24_InsidersBeforeStable ==
  (DidLocate /\ ExistsFor(req.arg, host, storage, Dir_Insiders)
     /\ ExistsFor(req.arg, host, storage, Dir_Code))
  => /\ ExistingCandidates(req.arg, host, storage)[1].app = Dir_Insiders
     /\ req.result = Locate(req.arg, host, OnlyBuild(storage, Dir_Insiders)).value
====
